---- MODULE Spec2Model ----
(***************************************************************************)
(* State-machine model of the MayaStor storage-node data-plane core:       *)
(*   - the NVMe controller reset state machine and the per-core I/O        *)
(*     channels (mayastor/src/bdev/dev/nvmx/controller.rs, channel.rs),    *)
(*   - the nexus child open/close lifecycle (bdev/nexus/nexus_child.rs),   *)
(*   - the CSI node staging pipeline (csi/src/node.rs),                    *)
(*   - the per-child error store that drives fault-out,                    *)
(*   - the GPT label probe of a nexus child (NexusChild::probe_label),     *)
(*   - the routing of nexus I/O to the healthy children,                   *)
(*   - the sharing of a nexus over nvmf or iscsi,                          *)
(*   - the bdev registry behind the uring scheme (bdev/dev/uring.rs),      *)
(*   - the mutex of the controller as channel creation and reset           *)
(*     completion take it,                                                 *)
(*   - the qpair and poll group of an I/O channel as SPDK calls,           *)
(*   - concurrent NodeStageVolume calls, one step per suspension point.    *)
(* Each subsystem has its own specification (SpecReset, SpecChild,         *)
(* SpecCsi, SpecErr, SpecLabel, SpecNexus, SpecShare, SpecBdev, SpecLock,  *)
(* SpecQpair, SpecStage); the variables of the others stay at their        *)
(* initial values.                                                         *)
(***************************************************************************)
EXTENDS Integers, FiniteSets, Sequences, TLC

VARIABLES ctrl, chan, resets, poolUsed, resetRes,
          child, claimOwner, childOp, panicked,
          now, errStore, errAction, errChild, nexusStatus, errTotal,
          csi, csiOp,
          disk, probeOp,
          nxChild, nxBroken, nxIo,
          nxShare, shareOp,
          bdevReg, bdevOp,
          mutex, lockPc,
          qch, qcalls,
          stageSt, stageCall

resetVars == <<ctrl, chan, resets, poolUsed, resetRes>>

childVars == <<child, claimOwner, childOp, panicked>>

errVars == <<now, errStore, errAction, errChild, nexusStatus, errTotal>>

csiVars == <<csi, csiOp>>

labelVars == <<disk, probeOp>>

nexusVars == <<nxChild, nxBroken, nxIo>>

shareVars == <<nxShare, shareOp>>

bdevVars == <<bdevReg, bdevOp>>

lockVars == <<mutex, lockPc>>

qpairVars == <<qch, qcalls>>

stageVars == <<stageSt, stageCall>>

vars ==
    <<resetVars, childVars, errVars, csiVars, labelVars, nexusVars,
      shareVars, bdevVars, lockVars, qpairVars, stageVars>>

\* What the actions of one subsystem leave unchanged.
otherThanReset ==
    <<childVars, errVars, csiVars, labelVars, nexusVars, shareVars,
      bdevVars, lockVars, qpairVars, stageVars>>

otherThanChild ==
    <<resetVars, errVars, csiVars, labelVars, nexusVars, shareVars,
      bdevVars, lockVars, qpairVars, stageVars>>

otherThanErr ==
    <<resetVars, childVars, csiVars, labelVars, nexusVars, shareVars,
      bdevVars, lockVars, qpairVars, stageVars>>

otherThanCsi ==
    <<resetVars, childVars, errVars, labelVars, nexusVars, shareVars,
      bdevVars, lockVars, qpairVars, stageVars>>

otherThanChildAndLabel ==
    <<resetVars, errVars, csiVars, nexusVars, shareVars, bdevVars,
      lockVars, qpairVars, stageVars>>

otherThanNexus ==
    <<resetVars, childVars, errVars, csiVars, labelVars, shareVars,
      bdevVars, lockVars, qpairVars, stageVars>>

otherThanShare ==
    <<resetVars, childVars, errVars, csiVars, labelVars, nexusVars,
      bdevVars, lockVars, qpairVars, stageVars>>

otherThanBdev ==
    <<resetVars, childVars, errVars, csiVars, labelVars, nexusVars,
      shareVars, lockVars, qpairVars, stageVars>>

otherThanLock ==
    <<resetVars, childVars, errVars, csiVars, labelVars, nexusVars,
      shareVars, bdevVars, qpairVars, stageVars>>

otherThanQpair ==
    <<resetVars, childVars, errVars, csiVars, labelVars, nexusVars,
      shareVars, bdevVars, lockVars, stageVars>>

otherThanStage ==
    <<resetVars, childVars, errVars, csiVars, labelVars, nexusVars,
      shareVars, bdevVars, lockVars, qpairVars>>

(***************************************************************************)
(* Bounds of the model.                                                    *)
(***************************************************************************)
NumCores == 2
MaxResets == 2
NumChildren == 2
BdevSize == 2
MaxParentSize == 3
MaxTicks == 6
MaxFailedIo == 7
NumStaging == 1
MaxBlocks == 6
BlockLen == 2
MaxEntries == 3
NumNexus == 3
NumBdevNames == 3
MaxQpairs == 4
NumStageCalls == 2
NumNexusChildren == 2

Cores == 1 .. NumCores
RIds == 1 .. MaxResets
Children == 1 .. NumChildren
ParentSizes == 1 .. MaxParentSize

(***************************************************************************)
(* Program constants.                                                      *)
(***************************************************************************)
RESET_CTX_POOL_SIZE == 1023
ENODEV == 19
ENOMEM == 12
EIO == 5
max_errors == 4
retention_ns == 1000000000
err_store_size == 256

(***************************************************************************)
(* NVMe controller and per-core I/O channels.                              *)
(*                                                                         *)
(* ctrl     : [state, registered]  the controller and whether it is in the *)
(*            by-id index of NVME_CONTROLLERS (the I/O device key).        *)
(* chan[c]  : the NvmeIoChannelInner of core c; qpair is the Option that   *)
(*            holds the connected IoQpair, "None" or "Some".               *)
(* resets[r]: the ResetCtx of the r-th accepted reset and the position of  *)
(*            its spdk_for_each_channel traversal (the iterator is gone    *)
(*            once the traversal has completed). cbCount / cbOk record     *)
(*            the invocations of the user callback; failed records that a  *)
(*            teardown, the hardware reset or a reinit returned nonzero.   *)
(* poolUsed : contexts taken from RESET_CTX_POOL, the pool that the resets *)
(*            of all controllers share; a context that was taken is never  *)
(*            handed back.                                                 *)
(* resetRes : the value returned by the last NvmeController::reset call.   *)
(***************************************************************************)
NoQpair == "None"

SomeQpair == "Some"

NvmeControllerState == {"Initializing", "Running", "Resetting", "Destroying"}

NoChannel == [exists |-> FALSE, qpair |-> NoQpair, is_shutdown |-> FALSE]

NoResetCtx ==
    [phase |-> "unused", pos |-> 1, status |-> 0, failed |-> FALSE,
     cbCount |-> 0, cbOk |-> FALSE]

InFlight(r) == resets[r].phase \in {"destroy", "create"}

InitReset ==
    /\ ctrl = [state |-> "Initializing", registered |-> FALSE]
    /\ chan = [c \in Cores |-> NoChannel]
    /\ resets = [r \in RIds |-> NoResetCtx]
    /\ poolUsed = 0
    /\ resetRes = "none"

\* The controller when the other controllers of the node have used up the
\* pool but for one context, or all of it.
InitResetPool ==
    /\ ctrl = [state |-> "Initializing", registered |-> FALSE]
    /\ chan = [c \in Cores |-> NoChannel]
    /\ resets = [r \in RIds |-> NoResetCtx]
    /\ poolUsed \in {RESET_CTX_POOL_SIZE - 1, RESET_CTX_POOL_SIZE}
    /\ resetRes = "none"

\* NvmeController::set_state: logs the transition; the state field is not
\* assigned.
set_state(cur, new) == cur

\* connected_attached_cb: the controller gets its id, is registered as an I/O
\* device and in the by-id index, and its state is assigned Running directly.
ConnectedAttachedCb ==
    /\ ctrl.state = "Initializing"
    /\ ctrl' = [state |-> "Running", registered |-> TRUE]
    /\ UNCHANGED <<chan, resets, poolUsed, resetRes>>
    /\ UNCHANGED otherThanReset

\* The state check at the head of NvmeController::reset.
ResetRejectedBusy(state) ==
    state \in {"Initializing", "Destroying", "Resetting"}

\* The place in resets of the next reset this controller accepts.
NextSlot == Cardinality({r \in RIds : resets[r].phase # "unused"}) + 1

\* A reset that does not mind an exhausted pool.
ResetIgnoresPool ==
    /\ IF ResetRejectedBusy(ctrl.state)
       THEN /\ resetRes' = "EBUSY"
            /\ UNCHANGED <<ctrl, chan, resets, poolUsed>>
       ELSE /\ NextSlot <= MaxResets
            /\ LET r == NextSlot IN
               /\ resets' = [resets EXCEPT ![r] =
                                 [NoResetCtx EXCEPT !.phase = "destroy"]]
               /\ poolUsed' = poolUsed + 1
               /\ ctrl' = [ctrl EXCEPT
                               !.state = set_state(ctrl.state, "Resetting")]
               /\ resetRes' = "Ok"
               /\ UNCHANGED chan
    /\ UNCHANGED otherThanReset

\* NvmeController::reset.
Reset ==
    /\ IF ResetRejectedBusy(ctrl.state)
       THEN /\ resetRes' = "EBUSY"
            /\ UNCHANGED <<ctrl, chan, resets, poolUsed>>
       ELSE IF poolUsed >= RESET_CTX_POOL_SIZE
       THEN /\ resetRes' = "ENOMEM"
            /\ UNCHANGED <<ctrl, chan, resets, poolUsed>>
       ELSE /\ NextSlot <= MaxResets
            /\ LET r == NextSlot IN
               /\ resets' = [resets EXCEPT ![r] =
                                 [NoResetCtx EXCEPT !.phase = "destroy"]]
               /\ poolUsed' = poolUsed + 1
               /\ ctrl' = [ctrl EXCEPT
                               !.state = set_state(ctrl.state, "Resetting")]
               /\ resetRes' = "Ok"
               /\ UNCHANGED chan
    /\ UNCHANGED otherThanReset

\* NvmeIoChannelInner::reset: drops the qpair, always returns 0.
ChannelReset(ch) == [ch EXCEPT !.qpair = NoQpair]

\* NvmeIoChannelInner::shutdown.
ChannelShutdownInner(ch) ==
    IF ch.is_shutdown THEN ch
    ELSE [ChannelReset(ch) EXCEPT !.is_shutdown = TRUE]

\* NvmeIoChannelInner::reinitialize on behalf of reset r; outcome is what
\* the SPDK calls return: "ok", "alloc_fail", "add_fail", "connect_fail".
\* The result is <<channel, rc>>.
reinitialize_unchecked(ch, r, outcome) ==
    IF outcome = "alloc_fail"
    THEN <<[ch EXCEPT !.qpair = NoQpair], -ENOMEM>>
    ELSE IF outcome \in {"add_fail", "connect_fail"}
    THEN <<[ch EXCEPT !.qpair = NoQpair], -EIO>>
    ELSE <<[ch EXCEPT !.qpair = SomeQpair], 0>>

reinitialize(ch, r, outcome) ==
    IF ch.is_shutdown
    THEN <<ch, -ENODEV>>
    ELSE IF outcome = "alloc_fail"
    THEN <<[ch EXCEPT !.qpair = NoQpair], -ENOMEM>>
    ELSE IF outcome \in {"add_fail", "connect_fail"}
    THEN <<[ch EXCEPT !.qpair = NoQpair], -EIO>>
    ELSE <<[ch EXCEPT !.qpair = SomeQpair], 0>>

ReinitOutcomes == {"ok", "alloc_fail", "add_fail", "connect_fail"}

\* complete_reset: set_state(Running), then the user callback with
\* status == 0. The context is not handed back to the pool. ctx is the
\* context record of reset r as the caller leaves it.
complete_reset_reports_ok(r, ctx, status) ==
    /\ ctrl' = [ctrl EXCEPT !.state = set_state(ctrl.state, "Running")]
    /\ resets' = [resets EXCEPT ![r] =
                      [ctx EXCEPT !.phase = "done",
                                  !.pos = 1,
                                  !.status = status,
                                  !.cbCount = @ + 1,
                                  !.cbOk = TRUE]]

complete_reset(r, ctx, status) ==
    /\ ctrl' = [ctrl EXCEPT !.state = set_state(ctrl.state, "Running")]
    /\ resets' = [resets EXCEPT ![r] =
                      [ctx EXCEPT !.phase = "done",
                                  !.pos = 1,
                                  !.status = status,
                                  !.cbCount = @ + 1,
                                  !.cbOk = (status = 0)]]

\* One visit of the teardown traversal: reset_destroy_channels on the
\* channel of core pos (a core without a channel is passed over), then
\* spdk_for_each_channel_continue(i, rc).
ResetDestroyChannels(r) ==
    /\ resets[r].phase = "destroy"
    /\ resets[r].pos <= NumCores
    /\ resets[r].status = 0
    /\ LET c == resets[r].pos IN
       /\ chan' = IF chan[c].exists
                  THEN [chan EXCEPT ![c] = ChannelReset(chan[c])]
                  ELSE chan
       /\ resets' = [resets EXCEPT ![r].pos = c + 1]
    /\ UNCHANGED <<ctrl, poolUsed, resetRes>>
    /\ UNCHANGED otherThanReset

\* A reset_destroy_channels_done that reports the failure of the hardware
\* reset to the callback and goes on to the reinit traversal all the same.
ResetDestroyChannelsDoneGoesOn(r) ==
    /\ resets[r].phase = "destroy"
    /\ resets[r].pos > NumCores \/ resets[r].status # 0
    /\ \E hwOk \in BOOLEAN :
         IF resets[r].status # 0
         THEN complete_reset(r, resets[r], resets[r].status)
         ELSE IF ~hwOk
         THEN /\ resets' = [resets EXCEPT ![r] =
                                [@ EXCEPT !.phase = "create", !.pos = 1,
                                          !.failed = TRUE,
                                          !.cbCount = @ + 1,
                                          !.cbOk = FALSE]]
              /\ UNCHANGED ctrl
         ELSE /\ resets' = [resets EXCEPT ![r] =
                                [@ EXCEPT !.phase = "create", !.pos = 1]]
              /\ UNCHANGED ctrl
    /\ UNCHANGED <<chan, poolUsed, resetRes>>
    /\ UNCHANGED otherThanReset

\* reset_destroy_channels_done; hwOk is the result of spdk_nvme_ctrlr_reset.
ResetDestroyChannelsDone(r) ==
    /\ resets[r].phase = "destroy"
    /\ resets[r].pos > NumCores \/ resets[r].status # 0
    /\ \E hwOk \in BOOLEAN :
         IF resets[r].status # 0
         THEN complete_reset(r, resets[r], resets[r].status)
         ELSE IF ~hwOk
         THEN complete_reset(r, [resets[r] EXCEPT !.failed = TRUE], -EIO)
         ELSE /\ resets' = [resets EXCEPT ![r] =
                                [@ EXCEPT !.phase = "create", !.pos = 1]]
              /\ UNCHANGED ctrl
    /\ UNCHANGED <<chan, poolUsed, resetRes>>
    /\ UNCHANGED otherThanReset

\* One visit of the reinit traversal: reset_create_channels on the channel
\* of core pos, then spdk_for_each_channel_continue(i, rc); a nonzero rc
\* ends the traversal.
ResetCreateChannels(r) ==
    /\ resets[r].phase = "create"
    /\ resets[r].pos <= NumCores
    /\ resets[r].status = 0
    /\ LET c == resets[r].pos IN
       IF chan[c].exists
       THEN \E outcome \in ReinitOutcomes :
              LET res == reinitialize(chan[c], r, outcome) IN
              /\ chan' = [chan EXCEPT ![c] = res[1]]
              /\ resets' = [resets EXCEPT ![r] =
                                [@ EXCEPT !.pos = c + 1,
                                          !.status = res[2],
                                          !.failed = @ \/ (res[2] # 0)]]
       ELSE /\ resets' = [resets EXCEPT ![r].pos = c + 1]
            /\ UNCHANGED chan
    /\ UNCHANGED <<ctrl, poolUsed, resetRes>>
    /\ UNCHANGED otherThanReset

\* reset_create_channels_done.
ResetCreateChannelsDone(r) ==
    /\ resets[r].phase = "create"
    /\ resets[r].pos > NumCores \/ resets[r].status # 0
    /\ complete_reset(r, resets[r], resets[r].status)
    /\ UNCHANGED <<chan, poolUsed, resetRes>>
    /\ UNCHANGED otherThanReset

\* The controller lookup and state check at the head of
\* NvmeControllerIoChannel::create.
CreateAllowed(c) == c.registered /\ c.state = "Running"

\* NvmeControllerIoChannel::create on a core that has no channel; outcome
\* is what the SPDK calls return. Every failing path returns 1 and leaves
\* no channel behind.
ChannelCreate(c) ==
    /\ ~chan[c].exists
    /\ \E outcome \in {"ok", "alloc_fail", "pg_fail", "add_fail",
                       "connect_fail"} :
         IF CreateAllowed(ctrl) /\ outcome = "ok"
         THEN chan' = [chan EXCEPT ![c] =
                           [exists |-> TRUE, qpair |-> SomeQpair,
                            is_shutdown |-> FALSE]]
         ELSE chan' = chan
    /\ UNCHANGED <<ctrl, resets, poolUsed, resetRes>>
    /\ UNCHANGED otherThanReset

\* NvmeControllerIoChannel::destroy.
ChannelDestroy(c) ==
    /\ chan[c].exists
    /\ chan' = [chan EXCEPT ![c] = NoChannel]
    /\ UNCHANGED <<ctrl, resets, poolUsed, resetRes>>
    /\ UNCHANGED otherThanReset

\* NvmeIoChannelInner::shutdown called on the channel of core c.
ChannelShutdown(c) ==
    /\ chan[c].exists
    /\ chan' = [chan EXCEPT ![c] = ChannelShutdownInner(chan[c])]
    /\ UNCHANGED <<ctrl, resets, poolUsed, resetRes>>
    /\ UNCHANGED otherThanReset

NextReset ==
    \/ ConnectedAttachedCb
    \/ Reset
    \/ \E r \in RIds : ResetDestroyChannels(r)
    \/ \E r \in RIds : ResetDestroyChannelsDone(r)
    \/ \E r \in RIds : ResetCreateChannels(r)
    \/ \E r \in RIds : ResetCreateChannelsDone(r)
    \/ \E c \in Cores : ChannelCreate(c)
    \/ \E c \in Cores : ChannelDestroy(c)
    \/ \E c \in Cores : ChannelShutdown(c)


(***************************************************************************)
(* Nexus children.                                                         *)
(*                                                                         *)
(* child[c]   : the NexusChild record: its state, whether it wraps a bdev  *)
(*              (Option<Bdev>) and whether it holds a descriptor.          *)
(*              The children wrap the same backend bdev, of BdevSize bytes.*)
(* claimOwner : the child whose open claimed the bdev for the nexus        *)
(*              module, 0 when the bdev is not claimed.                    *)
(* childOp    : the last call on a child and what it returned.             *)
(* panicked   : a call has panicked (unwrap of None).                      *)
(***************************************************************************)
ChildState == {"Init", "ConfigInvalid", "Open", "Closed", "Faulted"}

NoOp == [op |-> "none", c |-> 0, res |-> "none"]

InitChild ==
    /\ child \in [Children -> {[state |-> "Init", bdev |-> b,
                                descriptor |-> FALSE] : b \in BOOLEAN}]
    /\ claimOwner = 0
    /\ childOp = NoOp
    /\ panicked = FALSE

\* NexusChild::open(parent_size) on child c with record ch. descOk is the
\* result of Descriptor::open; owner is the current holder of the module
\* claim (spdk_bdev_module_claim_bdev fails on a claimed bdev). The result
\* is the child record, the returned value and the claim holder afterwards.
open_keeps_descriptor_on_failure(ch, c, parent_size, descOk, owner) ==
    IF ch.state # "Closed" /\ ch.state # "Init"
    THEN [child |-> ch, res |-> "ChildNotClosed", owner |-> owner]
    ELSE IF ~ch.bdev
    THEN [child |-> ch, res |-> "OpenWithoutBdev", owner |-> owner]
    ELSE IF parent_size > BdevSize
    THEN [child |-> [ch EXCEPT !.state = "ConfigInvalid"],
          res |-> "ChildTooSmall", owner |-> owner]
    ELSE IF ~descOk
    THEN [child |-> [ch EXCEPT !.state = "Faulted"],
          res |-> "OpenChild", owner |-> owner]
    ELSE IF owner # 0
    THEN [child |-> [ch EXCEPT !.state = "Faulted", !.descriptor = TRUE],
          res |-> "ClaimChild", owner |-> owner]
    ELSE [child |-> [ch EXCEPT !.state = "Open", !.descriptor = TRUE],
          res |-> "Ok", owner |-> c]

\* An open that takes a child of any size.
open_ignores_size(ch, c, parent_size, descOk, owner) ==
    IF ch.state # "Closed" /\ ch.state # "Init"
    THEN [child |-> ch, res |-> "ChildNotClosed", owner |-> owner]
    ELSE IF ~ch.bdev
    THEN [child |-> ch, res |-> "OpenWithoutBdev", owner |-> owner]
    ELSE IF ~descOk
    THEN [child |-> [ch EXCEPT !.state = "Faulted"],
          res |-> "OpenChild", owner |-> owner]
    ELSE IF owner # 0
    THEN [child |-> [ch EXCEPT !.state = "Faulted"],
          res |-> "ClaimChild", owner |-> owner]
    ELSE [child |-> [ch EXCEPT !.state = "Open", !.descriptor = TRUE],
          res |-> "Ok", owner |-> c]

\* An open that refuses only a child that is Open.
open_reopens_faulted(ch, c, parent_size, descOk, owner) ==
    IF ch.state = "Open"
    THEN [child |-> ch, res |-> "ChildNotClosed", owner |-> owner]
    ELSE IF ~ch.bdev
    THEN [child |-> ch, res |-> "OpenWithoutBdev", owner |-> owner]
    ELSE IF parent_size > BdevSize
    THEN [child |-> [ch EXCEPT !.state = "ConfigInvalid"],
          res |-> "ChildTooSmall", owner |-> owner]
    ELSE IF ~descOk
    THEN [child |-> [ch EXCEPT !.state = "Faulted"],
          res |-> "OpenChild", owner |-> owner]
    ELSE IF owner # 0
    THEN [child |-> [ch EXCEPT !.state = "Faulted"],
          res |-> "ClaimChild", owner |-> owner]
    ELSE [child |-> [ch EXCEPT !.state = "Open", !.descriptor = TRUE],
          res |-> "Ok", owner |-> c]

\* An open that returns ChildTooSmall and OpenChild without committing the
\* state.
open_leaves_state_on_failure(ch, c, parent_size, descOk, owner) ==
    IF ch.state # "Closed" /\ ch.state # "Init"
    THEN [child |-> ch, res |-> "ChildNotClosed", owner |-> owner]
    ELSE IF ~ch.bdev
    THEN [child |-> ch, res |-> "OpenWithoutBdev", owner |-> owner]
    ELSE IF parent_size > BdevSize
    THEN [child |-> ch,
          res |-> "ChildTooSmall", owner |-> owner]
    ELSE IF ~descOk
    THEN [child |-> ch, res |-> "OpenChild", owner |-> owner]
    ELSE IF owner # 0
    THEN [child |-> [ch EXCEPT !.state = "Faulted"],
          res |-> "ClaimChild", owner |-> owner]
    ELSE [child |-> [ch EXCEPT !.state = "Open", !.descriptor = TRUE],
          res |-> "Ok", owner |-> c]

open(ch, c, parent_size, descOk, owner) ==
    IF ch.state # "Closed" /\ ch.state # "Init"
    THEN [child |-> ch, res |-> "ChildNotClosed", owner |-> owner]
    ELSE IF ~ch.bdev
    THEN [child |-> ch, res |-> "OpenWithoutBdev", owner |-> owner]
    ELSE IF parent_size > BdevSize
    THEN [child |-> [ch EXCEPT !.state = "ConfigInvalid"],
          res |-> "ChildTooSmall", owner |-> owner]
    ELSE IF ~descOk
    THEN [child |-> [ch EXCEPT !.state = "Faulted"],
          res |-> "OpenChild", owner |-> owner]
    ELSE IF owner # 0
    THEN [child |-> [ch EXCEPT !.state = "Faulted"],
          res |-> "ClaimChild", owner |-> owner]
    ELSE [child |-> [ch EXCEPT !.state = "Open", !.descriptor = TRUE],
          res |-> "Ok", owner |-> c]

NexusChildOpen(c) ==
    /\ ~panicked
    /\ \E parent_size \in ParentSizes, descOk \in BOOLEAN :
         LET o == open(child[c], c, parent_size, descOk, claimOwner) IN
         /\ child' = [child EXCEPT ![c] = o.child]
         /\ claimOwner' = o.owner
         /\ childOp' = [op |-> "open", c |-> c, res |-> o.res]
    /\ UNCHANGED panicked
    /\ UNCHANGED otherThanChild

\* NexusChild::close on child c. The debug! line unwraps the descriptor
\* when it is evaluated (debug logging enabled): without a descriptor the
\* call then panics before it changes anything. Otherwise the module claim
\* on the bdev is released (whoever holds it), the descriptor is dropped
\* and the state becomes Closed.
NexusChildClose(c) ==
    /\ ~panicked
    /\ \E debugEnabled \in BOOLEAN :
         IF debugEnabled /\ ~child[c].descriptor
         THEN /\ panicked' = TRUE
              /\ childOp' = [op |-> "close", c |-> c, res |-> "panic"]
              /\ UNCHANGED <<child, claimOwner>>
         ELSE /\ claimOwner' = IF child[c].bdev THEN 0 ELSE claimOwner
              /\ child' = [child EXCEPT ![c] =
                               [@ EXCEPT !.descriptor = FALSE,
                                         !.state = "Closed"]]
              /\ childOp' = [op |-> "close", c |-> c, res |-> "Closed"]
              /\ UNCHANGED panicked
    /\ UNCHANGED otherThanChild

\* NexusChild::can_rw.
can_rw(ch) == ch.state = "Open" \/ ch.state = "Faulted"

\* A read_at that goes by can_rw() and not by the descriptor.
read_at_by_state(ch, ioOk) ==
    IF can_rw(ch)
    THEN IF ioOk THEN "Ok" ELSE "ReadError"
    ELSE "InvalidDescriptor"

\* NexusChild::read_at: with a descriptor the read is issued to the backend
\* (ioOk is its result), without one InvalidDescriptor is returned.
read_at(ch, ioOk) ==
    IF ch.descriptor
    THEN IF ioOk THEN "Ok" ELSE "ReadError"
    ELSE "InvalidDescriptor"

\* NexusChild::write_at.
write_at(ch, ioOk) ==
    IF ch.descriptor
    THEN IF ioOk THEN "Ok" ELSE "WriteError"
    ELSE "InvalidDescriptor"

NexusChildReadAt(c) ==
    /\ ~panicked
    /\ \E ioOk \in BOOLEAN :
         childOp' = [op |-> "read_at", c |-> c, res |-> read_at(child[c], ioOk)]
    /\ UNCHANGED <<child, claimOwner, panicked>>
    /\ UNCHANGED otherThanChild

NexusChildWriteAt(c) ==
    /\ ~panicked
    /\ \E ioOk \in BOOLEAN :
         childOp' = [op |-> "write_at", c |-> c,
                     res |-> write_at(child[c], ioOk)]
    /\ UNCHANGED <<child, claimOwner, panicked>>
    /\ UNCHANGED otherThanChild

NextChild ==
    \/ \E c \in Children : NexusChildOpen(c)
    \/ \E c \in Children : NexusChildClose(c)
    \/ \E c \in Children : NexusChildReadAt(c)
    \/ \E c \in Children : NexusChildWriteAt(c)


(***************************************************************************)
(* GPT label probe of a nexus child (NexusChild::probe_label).             *)
(*                                                                         *)
(* disk    : the backend device of the children. It has num_blocks blocks  *)
(*           of BlockLen bytes. LBA 1 holds the header hdr when primaryOk  *)
(*           and bytes that are no header otherwise; LBA num_blocks - 1    *)
(*           holds hdr when backupOk; the partition entries in table are   *)
(*           stored from LBA hdr.lba_table on.                             *)
(* probeOp : the child and result of the last probe_label call.            *)
(***************************************************************************)
\* The header of a block whose bytes GPTHeader::from_slice rejects.
NoHeader ==
    [num_entries |-> 0, entry_size |-> 0, lba_table |-> 0, table_crc |-> 0]

NoLabel == [primary |-> NoHeader, partitions |-> <<>>]

NoProbe == [c |-> 0, res |-> "none", label |-> NoLabel]

\* GptEntry::checksum: a checksum over the entries in table order.
RECURSIVE checksum(_)
checksum(parts) ==
    IF parts = <<>> THEN 0
    ELSE (3 * checksum(SubSeq(parts, 1, Len(parts) - 1))
              + parts[Len(parts)]) % 8

Headers(table) ==
    UNION {{[num_entries |-> n, entry_size |-> 1, lba_table |-> 2,
             table_crc |-> (checksum(SubSeq(table, 1, n)) + wrong) % 8] :
                wrong \in 0 .. 1} : n \in 1 .. MaxEntries}

Disks ==
    UNION {{[num_blocks |-> nb, primaryOk |-> p, backupOk |-> b, hdr |-> h,
             table |-> t] :
                nb \in 5 .. MaxBlocks, p \in BOOLEAN, b \in BOOLEAN,
                h \in Headers(t)} : t \in [1 .. MaxEntries -> 1 .. 2]}

\* What can go wrong apart from the content of the device: a failing
\* dma_malloc, a failing read, entries that GptEntry::from_slice rejects.
ProbeFailures ==
    {"none", "LabelAlloc", "LabelRead", "BackupRead", "PartitionTableAlloc",
     "PartitionTableRead", "InvalidPartitionTable"}

\* unaligned is what a read at an offset that is no multiple of the block
\* length gives: an error, or bytes that are no header.
ProbeEnvs ==
    {[fail |-> f, unaligned |-> u] :
         f \in ProbeFailures, u \in {"error", "junk"}}

\* The children a probe finds: an Open child holding the descriptor, a
\* Faulted child left by a failed open, a Closed child.
ProbedChildren ==
    {[state |-> "Open", bdev |-> TRUE, descriptor |-> TRUE],
     [state |-> "Faulted", bdev |-> TRUE, descriptor |-> FALSE],
     [state |-> "Closed", bdev |-> TRUE, descriptor |-> FALSE]}

InitLabel ==
    /\ disk \in Disks
    /\ probeOp = NoProbe

\* The outcome of a read_at of one block at byte offset `offset` followed
\* by GPTHeader::from_slice: the offset is in bytes, as in the reads of the
\* primary header and of the partition table. st is "error" when the read
\* fails, "junk" when the bytes are no header, "ok" with the header in hdr.
header_at(d, offset, env) ==
    LET lba == offset \div BlockLen IN
    IF offset % BlockLen # 0 THEN [st |-> env.unaligned, hdr |-> NoHeader]
    ELSE IF lba >= d.num_blocks THEN [st |-> "error", hdr |-> NoHeader]
    ELSE IF lba = 1 /\ d.primaryOk THEN [st |-> "ok", hdr |-> d.hdr]
    ELSE IF lba = d.num_blocks - 1 /\ d.backupOk
         THEN [st |-> "ok", hdr |-> d.hdr]
    ELSE [st |-> "junk", hdr |-> NoHeader]

\* The outcome of a read_at of num_blocks blocks at byte offset `offset`
\* followed by GptEntry::from_slice(buf, num_entries).
entries_at(d, offset, num_blocks, num_entries) ==
    LET lba == offset \div BlockLen IN
    IF offset % BlockLen # 0 \/ lba + num_blocks > d.num_blocks
    THEN [st |-> "error", parts |-> <<>>]
    ELSE IF lba = d.hdr.lba_table
    THEN [st |-> "ok", parts |-> SubSeq(d.table, 1, num_entries)]
    ELSE [st |-> "junk", parts |-> <<>>]

ProbeErr(kind) == [res |-> kind, label |-> NoLabel]

\* The rest of probe_label once a header has been accepted. The last step
\* is partitions.drain(.. 2).collect(): the range 0 .. 2 is out of bounds
\* on a vector of fewer than two entries, and drain panics.
probe_table(d, label, env) ==
    LET num_blocks == ((label.entry_size * label.num_entries)
                           \div BlockLen) + 1
        table == entries_at(d, label.lba_table * BlockLen, num_blocks,
                            label.num_entries)
        partitions == table.parts
    IN  IF env.fail = "PartitionTableAlloc"
        THEN ProbeErr("PartitionTableAlloc")
        ELSE IF env.fail = "PartitionTableRead" \/ table.st = "error"
        THEN ProbeErr("PartitionTableRead")
        ELSE IF env.fail = "InvalidPartitionTable" \/ table.st = "junk"
        THEN ProbeErr("InvalidPartitionTable")
        ELSE IF checksum(partitions) # label.table_crc
        THEN ProbeErr("PartitionTableChecksum")
        ELSE IF Len(partitions) < 2
        THEN ProbeErr("panic")
        ELSE [res |-> "Ok",
              label |-> [primary |-> label,
                         partitions |-> SubSeq(partitions, 1, 2)]]

\* NexusChild::probe_label on the child record ch and the device d.
probe_label(ch, d, env) ==
    LET primary == BlockLen
        secondary == d.num_blocks - 1
        first == header_at(d, primary, env)
        second == header_at(d, secondary, env)
    IN  IF ~can_rw(ch) THEN ProbeErr("ChildReadOnly")
        ELSE IF ~ch.bdev \/ ~ch.descriptor THEN ProbeErr("ChildInvalid")
        ELSE IF env.fail = "LabelAlloc" THEN ProbeErr("LabelAlloc")
        ELSE IF env.fail = "LabelRead" \/ first.st = "error"
        THEN ProbeErr("LabelRead")
        ELSE IF first.st = "ok" THEN probe_table(d, first.hdr, env)
        ELSE IF env.fail = "BackupRead" \/ second.st = "error"
        THEN ProbeErr("LabelRead")
        ELSE IF second.st = "ok" THEN probe_table(d, second.hdr, env)
        ELSE ProbeErr("LabelInvalid")

NexusChildProbeLabel(c) ==
    /\ ~panicked
    /\ \E env \in ProbeEnvs :
          LET r == probe_label(child[c], disk, env) IN
          /\ probeOp' = [c |-> c, res |-> r.res, label |-> r.label]
          /\ panicked' = (r.res = "panic")
    /\ UNCHANGED <<disk, child, claimOwner, childOp>>
    /\ UNCHANGED otherThanChildAndLabel

NextLabel == \E c \in Children : NexusChildProbeLabel(c)


(***************************************************************************)
(* Error store and error-driven fault-out of a nexus child (the nexus of   *)
(* tests/error_fault_child.rs: one child that fails its reads and one      *)
(* healthy child).                                                         *)
(*                                                                         *)
(* now         : the clock, in ns; it advances in steps of TickNs.         *)
(* errStore    : the timestamps of the records the store retains, oldest   *)
(*               first.                                                    *)
(* errAction   : the action policy of the store, Fault or Ignore.          *)
(* errChild    : the state of the failing child.                           *)
(* nexusStatus : the status of the nexus.                                  *)
(* errTotal    : the number of failed I/Os submitted to the store so far.  *)
(***************************************************************************)
TickNs == retention_ns \div 4

InitErr ==
    /\ now = 0
    /\ errStore = <<>>
    /\ errAction \in {"Fault", "Ignore"}
    /\ errChild = "Open"
    /\ nexusStatus = "Online"
    /\ errTotal = 0

\* The records of a store that are not older than the retention window.
Retained(store, t) ==
    SelectSeq(store, LAMBDA ts : t - ts <= retention_ns)

\* record(): evict the records older than the retention window, append the
\* new one; a full ring overwrites its oldest record.
RecordError(store, t) ==
    LET kept == Retained(store, t)
        room == IF Len(kept) >= err_store_size THEN Tail(kept) ELSE kept
    IN Append(room, t)

\* The fault-out decision taken on each insertion.
ShouldFaultAtThreshold(count, action) ==
    count >= max_errors /\ action = "Fault"

ShouldFault(count, action) == count > max_errors /\ action = "Fault"

\* Time passes.
Tick ==
    /\ now < MaxTicks * TickNs
    /\ now' = now + TickNs
    /\ UNCHANGED <<errStore, errAction, errChild, nexusStatus, errTotal>>
    /\ UNCHANGED otherThanErr

\* A read of the nexus is routed to the failing child and fails: the error
\* is submitted to the store; over the threshold the child is faulted and
\* the nexus, which has a healthy child left, becomes Degraded. A faulted
\* child is out of the I/O path.
FailedRead ==
    /\ errChild = "Open"
    /\ errTotal < MaxFailedIo
    /\ errTotal' = errTotal + 1
    /\ errStore' = RecordError(errStore, now)
    /\ IF ShouldFault(Len(errStore'), errAction)
       THEN /\ errChild' = "Faulted"
            /\ nexusStatus' = "Degraded"
       ELSE UNCHANGED <<errChild, nexusStatus>>
    /\ UNCHANGED <<now, errAction>>
    /\ UNCHANGED otherThanErr

NextErr == Tick \/ FailedRead


(***************************************************************************)
(* I/O routing of a nexus over its children and fault-out (the nexus of    *)
(* tests/error_fault_child.rs and tests/replica_timeout.rs with            *)
(* NumNexusChildren children).                                             *)
(*                                                                         *)
(* nxChild  : per child, its state (Open or Faulted) and the number of     *)
(*            failed I/Os its error store holds.                           *)
(* nxBroken : the children whose device fails every I/O (error injection,  *)
(*            a terminated replica).                                       *)
(* nxIo     : the last nexus I/O: its kind, the children it was routed to  *)
(*            and whether it succeeded.                                    *)
(***************************************************************************)
NxChildren == 1 .. NumNexusChildren

NoIo == [op |-> "none", to |-> {}, ok |-> TRUE]

InitNexus ==
    /\ nxChild = [c \in NxChildren |-> [state |-> "Open", errs |-> 0]]
    /\ nxBroken = {}
    /\ nxIo = NoIo

\* The children in the I/O path of the nexus.
Healthy(ch) == {c \in NxChildren : ch[c].state = "Open"}

\* Nexus::status.
NexusStatus(ch) ==
    IF Healthy(ch) = NxChildren THEN "Online"
    ELSE IF Healthy(ch) = {} THEN "Faulted"
    ELSE "Degraded"

\* A routing that keeps faulted children in the I/O path.
RoutedToAll(ch) == NxChildren

\* The children a nexus I/O may be routed to.
RoutedTo(ch) == Healthy(ch)

\* An I/O failed on child c: the error goes to the child's store and, over
\* the threshold, the child is faulted.
child_io_failed(rec) ==
    IF rec.state # "Open" THEN rec
    ELSE IF ShouldFault(rec.errs + 1, "Fault")
    THEN [state |-> "Faulted", errs |-> rec.errs + 1]
    ELSE [rec EXCEPT !.errs = @ + 1]

\* The children after an I/O has been submitted to the children in to.
Submitted(ch, to, broken) ==
    [c \in NxChildren |->
        IF c \in to /\ c \in broken THEN child_io_failed(ch[c]) ELSE ch[c]]

\* A read of the nexus: it goes to any one child of the I/O path and fails
\* if there is none or if that child fails it.
nexus_read(ch, broken) ==
    IF RoutedTo(ch) = {}
    THEN {[children |-> ch, to |-> {}, ok |-> FALSE]}
    ELSE {[children |-> Submitted(ch, {c}, broken), to |-> {c},
           ok |-> c \notin broken /\ ch[c].state = "Open"] :
              c \in RoutedTo(ch)}

\* A write of the nexus: it goes to every child of the I/O path and fails
\* if there is none or if a child fails it.
nexus_write(ch, broken) ==
    IF RoutedTo(ch) = {}
    THEN [children |-> ch, to |-> {}, ok |-> FALSE]
    ELSE [children |-> Submitted(ch, RoutedTo(ch), broken),
          to |-> RoutedTo(ch),
          ok |-> \A c \in RoutedTo(ch) :
                     c \notin broken /\ ch[c].state = "Open"]

\* The device of a child starts to fail its I/O.
InjectError(c) ==
    /\ c \notin nxBroken
    /\ nxBroken' = nxBroken \cup {c}
    /\ UNCHANGED <<nxChild, nxIo>>
    /\ UNCHANGED otherThanNexus

NexusRead ==
    /\ \E r \in nexus_read(nxChild, nxBroken) :
          /\ nxChild' = r.children
          /\ nxIo' = [op |-> "read", to |-> r.to, ok |-> r.ok]
    /\ UNCHANGED nxBroken
    /\ UNCHANGED otherThanNexus

NexusWrite ==
    /\ LET r == nexus_write(nxChild, nxBroken) IN
          /\ nxChild' = r.children
          /\ nxIo' = [op |-> "write", to |-> r.to, ok |-> r.ok]
    /\ UNCHANGED nxBroken
    /\ UNCHANGED otherThanNexus

NextNexus ==
    \/ \E c \in NxChildren : InjectError(c)
    \/ NexusRead
    \/ NexusWrite


(***************************************************************************)
(* Sharing of a nexus over a storage protocol (Nexus::share_iscsi,         *)
(* share_nvmf, unshare, shared), as tests/nexus_share.rs exercises it, and *)
(* the create_nexus/destroy_nexus calls of bdev/nexus/nexus_rpc.rs.        *)
(***************************************************************************)
Nexuses == 1 .. NumNexus

ShareProtocols == {"Nvmf", "Iscsi"}

NoUri == <<>>

NoNexus == [exists |-> FALSE, proto |-> "Off", uri |-> NoUri]

NoShareOp == [op |-> "none", nexus |-> 0, proto |-> "Off", ok |-> TRUE,
              uri |-> NoUri]

InitShare ==
    /\ nxShare = [n \in Nexuses |-> NoNexus]
    /\ shareOp = NoShareOp

\* The share of nexus n over a protocol: its URI names the protocol and the
\* nexus.
share_uri(n, proto) == <<proto, n>>

shared(nx) == nx.proto

share_switches(nx, n, proto) ==
    [nx |-> [nx EXCEPT !.proto = proto, !.uri = share_uri(n, proto)],
     ok |-> TRUE, uri |-> share_uri(n, proto)]

\* share_iscsi / share_nvmf: the share in place is returned when the
\* protocol is the one asked for, a share over another protocol is an
\* error, and a nexus that is not shared gets a new share.
share(nx, n, proto) ==
    IF shared(nx) = proto
    THEN [nx |-> nx, ok |-> TRUE, uri |-> nx.uri]
    ELSE IF shared(nx) # "Off"
    THEN [nx |-> nx, ok |-> FALSE, uri |-> NoUri]
    ELSE [nx |-> [nx EXCEPT !.proto = proto, !.uri = share_uri(n, proto)],
          ok |-> TRUE, uri |-> share_uri(n, proto)]

unshare(nx) == [nx EXCEPT !.proto = "Off", !.uri = NoUri]

\* create_nexus: a nexus that exists already is left as it is
\* (Error::Exists is answered with Ok).
CreateNexus(n) ==
    /\ nxShare' = IF nxShare[n].exists THEN nxShare
                  ELSE [nxShare EXCEPT ![n] =
                            [exists |-> TRUE, proto |-> "Off",
                             uri |-> NoUri]]
    /\ shareOp' = [op |-> "create", nexus |-> n, proto |-> "Off",
                   ok |-> TRUE, uri |-> NoUri]
    /\ UNCHANGED otherThanShare

\* destroy_nexus: nexus_lookup fails for a nexus that does not exist.
DestroyNexus(n) ==
    /\ nxShare' = [nxShare EXCEPT ![n] = NoNexus]
    /\ shareOp' = [op |-> "destroy", nexus |-> n, proto |-> "Off",
                   ok |-> nxShare[n].exists, uri |-> NoUri]
    /\ UNCHANGED otherThanShare

ShareNexus(n, proto) ==
    /\ nxShare[n].exists
    /\ LET r == share(nxShare[n], n, proto)
       IN  /\ nxShare' = [nxShare EXCEPT ![n] = r.nx]
           /\ shareOp' = [op |-> "share", nexus |-> n, proto |-> proto,
                          ok |-> r.ok, uri |-> r.uri]
    /\ UNCHANGED otherThanShare

UnshareNexus(n) ==
    /\ nxShare[n].exists
    /\ nxShare' = [nxShare EXCEPT ![n] = unshare(nxShare[n])]
    /\ shareOp' = [op |-> "unshare", nexus |-> n, proto |-> "Off",
                   ok |-> TRUE, uri |-> NoUri]
    /\ UNCHANGED otherThanShare

NextShare ==
    \/ \E n \in Nexuses : CreateNexus(n)
    \/ \E n \in Nexuses : DestroyNexus(n)
    \/ \E n \in Nexuses, proto \in ShareProtocols : ShareNexus(n, proto)
    \/ \E n \in Nexuses : UnshareNexus(n)

(***************************************************************************)
(* Backend devices of the uring scheme (bdev/dev/uring.rs): the bdev       *)
(* registry of SPDK and the create and destroy operations of a parsed URI. *)
(***************************************************************************)
BdevNames == 1 .. NumBdevNames

\* The block size of a URI without a blk_size parameter.
default_blk_size == 512

BlkSizes == {default_blk_size, 8 * default_blk_size}

\* TryFrom<&Url> for Uring: the name is the path of the URI, the alias the
\* whole URI.
Urings == [name : BdevNames, blk_size : BlkSizes]

NoBdev == [registered |-> FALSE, blk_size |-> 0, alias |-> <<>>]

NoBdevOp == [op |-> "none", name |-> 0, blk_size |-> 0, res |-> "Ok",
             ret |-> 0]

InitBdev ==
    /\ bdevReg = [n \in BdevNames |-> NoBdev]
    /\ bdevOp = NoBdevOp

\* Bdev::lookup_by_name
lookup_by_name(reg, name) == reg[name].registered

create_uring_bdev(reg, u) ==
    [reg EXCEPT ![u.name] = [registered |-> TRUE, blk_size |-> u.blk_size,
                             alias |-> <<u.name, u.blk_size>>]]

\* Uring::create: the outcomes of the call; SPDK may fail to create the
\* bdev (a null pointer, answered with BdevNotFound).
UringCreate(reg, u) ==
    IF lookup_by_name(reg, u.name)
    THEN {[reg |-> reg, res |-> "BdevExists", ret |-> 0]}
    ELSE {[reg |-> create_uring_bdev(reg, u), res |-> "Ok",
           ret |-> u.name],
          [reg |-> reg, res |-> "BdevNotFound", ret |-> 0]}

\* Uring::destroy: the outcomes of the call; delete_uring_bdev may report
\* an errno (DestroyBdev).
UringDestroy(reg, u) ==
    IF lookup_by_name(reg, u.name)
    THEN {[reg |-> [reg EXCEPT ![u.name] = NoBdev], res |-> "Ok",
           ret |-> 0],
          [reg |-> reg, res |-> "DestroyBdev", ret |-> 0]}
    ELSE {[reg |-> reg, res |-> "BdevNotFound", ret |-> 0]}

BdevCreate(u) ==
    /\ \E r \in UringCreate(bdevReg, u) :
          /\ bdevReg' = r.reg
          /\ bdevOp' = [op |-> "create", name |-> u.name,
                        blk_size |-> u.blk_size, res |-> r.res,
                        ret |-> r.ret]
    /\ UNCHANGED otherThanBdev

BdevDestroy(u) ==
    /\ \E r \in UringDestroy(bdevReg, u) :
          /\ bdevReg' = r.reg
          /\ bdevOp' = [op |-> "destroy", name |-> u.name,
                        blk_size |-> u.blk_size, res |-> r.res,
                        ret |-> r.ret]
    /\ UNCHANGED otherThanBdev

NextBdev ==
    \/ \E u \in Urings : BdevCreate(u)
    \/ \E u \in Urings : BdevDestroy(u)

(***************************************************************************)
(* The mutex of the controller (Arc<Mutex<NvmeController>>) as the I/O     *)
(* channel creation (channel.rs) and complete_reset (controller.rs) take   *)
(* and release it.                                                         *)
(*                                                                         *)
(* mutex  : the process that holds the mutex, NoHolder when it is free.    *)
(* lockPc : where each process is: the creation of the channel of a core   *)
(*          (the processes of Cores) and the completion of a reset         *)
(*          (ResetFlow).                                                   *)
(***************************************************************************)
ResetFlow == 0

NoHolder == -1

LockProcs == Cores \cup {ResetFlow}

InitLock ==
    /\ mutex = NoHolder
    /\ lockPc = [p \in LockProcs |-> "idle"]

\* The steps at which a process may block or be re-entered: the qpair
\* calls of the channel creation and the user callback of a reset.
SuspendingPcs == {"alloc", "pg_create", "add", "connect", "cb"}

\* NvmeControllerIoChannel::create: controller found, carc.lock().
CreateLock(c) ==
    /\ lockPc[c] = "idle"
    /\ mutex = NoHolder
    /\ mutex' = c
    /\ lockPc' = [lockPc EXCEPT ![c] = "locked"]
    /\ UNCHANGED otherThanLock

\* The state check under the lock; the guard goes at the end of the block
\* on both ways out, before the qpair is allocated.
CreateUnlock(c) ==
    /\ lockPc[c] = "locked"
    /\ mutex' = NoHolder
    /\ \E running \in BOOLEAN :
          lockPc' = [lockPc EXCEPT ![c] =
                         IF running THEN "alloc" ELSE "returned1"]
    /\ UNCHANGED otherThanLock

CreateNextPc(pc) ==
    CASE pc = "alloc" -> "pg_create"
      [] pc = "pg_create" -> "add"
      [] pc = "add" -> "connect"
      [] pc = "connect" -> "returned0"
      [] OTHER -> "idle"

\* IoQpair::create, PollGroup::create, add_qpair, connect: each may fail,
\* and create returns 1 then.
CreateStep(c) ==
    /\ lockPc[c] \in {"alloc", "pg_create", "add", "connect"}
    /\ \E ok \in BOOLEAN :
          lockPc' = [lockPc EXCEPT ![c] =
                         IF ok THEN CreateNextPc(@) ELSE "returned1"]
    /\ UNCHANGED mutex
    /\ UNCHANGED otherThanLock

CreateReturn(c) ==
    /\ lockPc[c] \in {"returned0", "returned1"}
    /\ lockPc' = [lockPc EXCEPT ![c] = "idle"]
    /\ UNCHANGED mutex
    /\ UNCHANGED otherThanLock

\* complete_reset: lookup_by_name, c.lock(), set_state(Running).
CompleteResetLock ==
    /\ lockPc[ResetFlow] = "idle"
    /\ mutex = NoHolder
    /\ mutex' = ResetFlow
    /\ lockPc' = [lockPc EXCEPT ![ResetFlow] = "locked"]
    /\ UNCHANGED otherThanLock

\* A complete_reset that calls the user callback with the guard alive.
CompleteResetKeepsLock ==
    /\ lockPc[ResetFlow] = "locked"
    /\ lockPc' = [lockPc EXCEPT ![ResetFlow] = "cb"]
    /\ UNCHANGED mutex
    /\ UNCHANGED otherThanLock

\* complete_reset: drop(controller), then the user callback is called.
CompleteResetUnlock ==
    /\ lockPc[ResetFlow] = "locked"
    /\ mutex' = NoHolder
    /\ lockPc' = [lockPc EXCEPT ![ResetFlow] = "cb"]
    /\ UNCHANGED otherThanLock

\* The user callback takes the controller (for example to reset it again).
CallbackLock ==
    /\ lockPc[ResetFlow] = "cb"
    /\ mutex = NoHolder
    /\ mutex' = ResetFlow
    /\ lockPc' = [lockPc EXCEPT ![ResetFlow] = "cb_locked"]
    /\ UNCHANGED otherThanLock

CallbackUnlock ==
    /\ lockPc[ResetFlow] = "cb_locked"
    /\ mutex' = NoHolder
    /\ lockPc' = [lockPc EXCEPT ![ResetFlow] = "cb"]
    /\ UNCHANGED otherThanLock

\* The user callback returns.
CallbackReturn ==
    /\ lockPc[ResetFlow] = "cb"
    /\ lockPc' = [lockPc EXCEPT ![ResetFlow] = "idle"]
    /\ UNCHANGED mutex
    /\ UNCHANGED otherThanLock

NextLock ==
    \/ \E c \in Cores : CreateLock(c)
    \/ \E c \in Cores : CreateUnlock(c)
    \/ \E c \in Cores : CreateStep(c)
    \/ \E c \in Cores : CreateReturn(c)
    \/ CompleteResetLock
    \/ CompleteResetUnlock
    \/ CallbackLock
    \/ CallbackUnlock
    \/ CallbackReturn

(***************************************************************************)
(* The resources of one I/O channel (channel.rs): its qpair, its poll      *)
(* group and its poller, and the SPDK calls each operation makes on them,  *)
(* in the order of the code (a value is dropped where its scope ends, the  *)
(* locals of a function in the reverse order of their declaration).        *)
(*                                                                         *)
(* qch    : the channel: whether it exists, the qpair it holds (NoQp for   *)
(*          None), is_shutdown, the qpairs that were added to its poll     *)
(*          group and not removed from it, the qpairs that were freed,     *)
(*          and the number of the next qpair SPDK allocates.               *)
(* qcalls : the calls of the last operation.                               *)
(***************************************************************************)
NoQp == 0

QpIds == 1 .. MaxQpairs

Call(f, q) == [f |-> f, q |-> q]

NoQch ==
    [exists |-> FALSE, qpair |-> NoQp, is_shutdown |-> FALSE, pg |-> {},
     freed |-> {}, next |-> 1]

InitQpair ==
    /\ qch = NoQch
    /\ qcalls = <<>>

\* Drop for IoQpair.
drop_qpair(q) ==
    <<Call("abort_reqs", q), Call("disconnect", q), Call("free", q)>>

\* What a sequence of calls does to the poll group and to the qpairs.
RECURSIVE Effects(_, _)
Effects(ch, calls) ==
    IF calls = <<>> THEN ch
    ELSE LET c == Head(calls)
             after ==
                 CASE c.f = "alloc" /\ c.q # NoQp ->
                          [ch EXCEPT !.next = @ + 1]
                   [] c.f = "pg_add" -> [ch EXCEPT !.pg = @ \cup {c.q}]
                   [] c.f = "pg_remove" -> [ch EXCEPT !.pg = @ \ {c.q}]
                   [] c.f = "free" -> [ch EXCEPT !.freed = @ \cup {c.q}]
                   [] c.f = "pg_destroy" -> [ch EXCEPT !.pg = {}]
                   [] OTHER -> ch
         IN  Effects(after, Tail(calls))

CreateOutcomes == {"ok", "alloc_fail", "pg_fail", "add_fail", "connect_fail"}

create_calls_connect_first(q, outcome) ==
    CASE outcome = "alloc_fail" -> <<Call("alloc", NoQp)>>
      [] outcome = "pg_fail" ->
             <<Call("alloc", q), Call("pg_create", NoQp)>> \o drop_qpair(q)
      [] outcome = "add_fail" ->
             <<Call("alloc", q), Call("pg_create", NoQp),
               Call("connect", q), Call("pg_add", q),
               Call("pg_destroy", NoQp)>> \o drop_qpair(q)
      [] outcome = "connect_fail" ->
             <<Call("alloc", q), Call("pg_create", NoQp),
               Call("poller_create", NoQp), Call("connect", q),
               Call("pg_destroy", NoQp)>> \o drop_qpair(q)
      [] OTHER ->
             <<Call("alloc", q), Call("pg_create", NoQp),
               Call("poller_create", NoQp), Call("connect", q),
               Call("pg_add", q)>>

\* NvmeControllerIoChannel::create past the state check, q being the qpair
\* that SPDK allocates.
create_calls(q, outcome) ==
    CASE outcome = "alloc_fail" -> <<Call("alloc", NoQp)>>
      [] outcome = "pg_fail" ->
             <<Call("alloc", q), Call("pg_create", NoQp)>> \o drop_qpair(q)
      [] outcome = "add_fail" ->
             <<Call("alloc", q), Call("pg_create", NoQp), Call("pg_add", q),
               Call("pg_destroy", NoQp)>> \o drop_qpair(q)
      [] outcome = "connect_fail" ->
             <<Call("alloc", q), Call("pg_create", NoQp), Call("pg_add", q),
               Call("poller_create", NoQp), Call("connect", q),
               Call("pg_remove", q), Call("pg_destroy", NoQp)>>
                 \o drop_qpair(q)
      [] OTHER ->
             <<Call("alloc", q), Call("pg_create", NoQp), Call("pg_add", q),
               Call("poller_create", NoQp), Call("connect", q)>>

\* NvmeIoChannelInner::reset: self.qpair.take() drops the qpair.
reset_calls(ch) == IF ch.qpair # NoQp THEN drop_qpair(ch.qpair) ELSE <<>>

\* NvmeIoChannelInner::shutdown.
shutdown_calls(ch) == IF ch.is_shutdown THEN <<>> ELSE reset_calls(ch)

\* NvmeIoChannelInner::reinitialize, q being the qpair that SPDK allocates.
reinitialize_calls(ch, q, outcome) ==
    IF ch.is_shutdown THEN <<>>
    ELSE reset_calls(ch) \o
         CASE outcome = "alloc_fail" -> <<Call("alloc", NoQp)>>
           [] outcome = "add_fail" ->
                  <<Call("alloc", q), Call("pg_add", q)>> \o drop_qpair(q)
           [] outcome = "connect_fail" ->
                  <<Call("alloc", q), Call("pg_add", q), Call("connect", q),
                    Call("pg_remove", q)>> \o drop_qpair(q)
           [] OTHER ->
                  <<Call("alloc", q), Call("pg_add", q), Call("connect", q)>>

\* NvmeControllerIoChannel::destroy; the poll group goes when the boxed
\* inner is dropped at the end of the block.
destroy_calls(ch) ==
    <<Call("poller_stop", NoQp)>>
        \o (IF ch.qpair # NoQp
            THEN <<Call("pg_remove", ch.qpair)>> \o drop_qpair(ch.qpair)
            ELSE <<>>)
        \o <<Call("pg_destroy", NoQp)>>

QpCreate ==
    /\ ~qch.exists
    /\ qch.next <= MaxQpairs
    /\ \E outcome \in CreateOutcomes :
          LET calls == create_calls(qch.next, outcome) IN
          /\ qcalls' = calls
          /\ qch' = IF outcome = "ok"
                    THEN [Effects(qch, calls) EXCEPT
                              !.exists = TRUE, !.qpair = qch.next,
                              !.is_shutdown = FALSE]
                    ELSE Effects(qch, calls)
    /\ UNCHANGED otherThanQpair

QpDestroy ==
    /\ qch.exists
    /\ qcalls' = destroy_calls(qch)
    /\ qch' = [Effects(qch, destroy_calls(qch)) EXCEPT
                   !.exists = FALSE, !.qpair = NoQp, !.is_shutdown = FALSE]
    /\ UNCHANGED otherThanQpair

QpReset ==
    /\ qch.exists
    /\ qcalls' = reset_calls(qch)
    /\ qch' = [Effects(qch, reset_calls(qch)) EXCEPT !.qpair = NoQp]
    /\ UNCHANGED otherThanQpair

QpShutdown ==
    /\ qch.exists
    /\ qcalls' = shutdown_calls(qch)
    /\ qch' = [Effects(qch, shutdown_calls(qch)) EXCEPT
                   !.qpair = IF qch.is_shutdown THEN @ ELSE NoQp,
                   !.is_shutdown = TRUE]
    /\ UNCHANGED otherThanQpair

QpReinitialize ==
    /\ qch.exists
    /\ qch.next <= MaxQpairs
    /\ \E outcome \in CreateOutcomes \ {"pg_fail"} :
          LET calls == reinitialize_calls(qch, qch.next, outcome) IN
          /\ qcalls' = calls
          /\ qch' = IF qch.is_shutdown THEN qch
                    ELSE [Effects(qch, calls) EXCEPT
                              !.qpair = IF outcome = "ok" THEN qch.next
                                        ELSE NoQp]
    /\ UNCHANGED otherThanQpair

\* nvme_poll: the completions of the qpairs of the poll group are
\* processed.
QpPoll ==
    /\ qch.exists
    /\ qcalls' = <<Call("process_completions", NoQp)>>
    /\ UNCHANGED qch
    /\ UNCHANGED otherThanQpair

NextQpair ==
    \/ QpCreate
    \/ QpDestroy
    \/ QpReset
    \/ QpShutdown
    \/ QpReinitialize
    \/ QpPoll

(***************************************************************************)
(* CSI node service.                                                       *)
(*                                                                         *)
(* csi   : what the node RPCs read and change on the node:                 *)
(*           mounts   - the kernel's mount table, a set of records         *)
(*                      [source, target, fstype, options];                 *)
(*           attached - the volumes whose device is attached, so that      *)
(*                      Device::find resolves the URI to a device path;    *)
(*           nodes    - what exists at each staging fs_mnt path and at     *)
(*                      the target path: "none", "dir" or "blk" (a block   *)
(*                      special file).                                     *)
(*         A volume is identified with its URI, its UUID and, once         *)
(*         attached, its device path.                                      *)
(* csiOp : the last RPC and the status it returned.                        *)
(*                                                                         *)
(* An RPC is an operator from the node's state and the request to the set  *)
(* of its possible outcomes [st, res]: one outcome per way the external    *)
(* operations it runs (attach, format, mount, unmount, detach) can succeed *)
(* or fail.                                                                *)
(***************************************************************************)
FS_MOUNT == "fs_mnt"

\* One volume of each kind node_unstage_volume tells apart: one whose
\* device Device::lookup finds in udev, one (nbd) that never shows up there.
Vols == {"nvmf", "nbd"}

UdevVisible(v) == v = "nvmf"

\* make_fs_staging_path: <staging>/fs_mnt.
make_fs_staging_path(staging) == <<FS_MOUNT, staging>>

\* The target path of the publish and unpublish requests.
TargetPath == <<"target", 0>>

StagingPaths == {make_fs_staging_path(st) : st \in 1 .. NumStaging}

Paths == StagingPaths \cup {TargetPath}

\* Node::filesystems, the filesystem types the node supports; the first
\* one is the default.
Filesystems == <<"ext4", "xfs">>

SupportedFs == {Filesystems[i] : i \in 1 .. Len(Filesystems)}

\* The fs_type a Mount capability asks for: none, or the non-default one.
FsTypeInputs == {"", Filesystems[2]}

MountFlagInputs == {{}, {"ro"}, {"noatime"}}

\* The access type of a volume capability: Block, or Mount with an fs_type
\* and mount flags.
Capabilities ==
    {[type |-> "block", fs_type |-> "", mount_flags |-> {}]}
    \cup {[type |-> "mount", fs_type |-> f, mount_flags |-> fl] :
             f \in FsTypeInputs, fl \in MountFlagInputs}

\* The source the mount table shows for a device node bind-mounted onto a
\* block special file (the devtmpfs holding the node, not the device).
DevTmpfs == "devtmpfs"

InitCsi ==
    /\ csi = [mounts |-> {}, attached |-> {},
              nodes |-> [p \in Paths |-> "none"]]
    /\ csiOp = [op |-> "none", res |-> "none"]

\* An RPC outcome: the node's state when it returns, and the status.
Ret(st, res) == [st |-> st, res |-> res]

\* mount::find_mount(Some(device), Some(path)) / (Some(device), None) /
\* (None, Some(path)): the mounts that match.
MountsOfAt(ms, dev, path) == {m \in ms : m.source = dev /\ m.target = path}

MountsOf(ms, dev) == {m \in ms : m.source = dev}

MountsAt(ms, path) == {m \in ms : m.target = path}

\* ReadOnly::readonly on mount options.
readonly(options) == "ro" \in options

\* mount::subset(flags, options).
subset(first, second) == first \subseteq second

\* fs::remove_dir: removes an unused directory, fails otherwise (the RPCs
\* only log the failure).
remove_dir(st, path) ==
    IF st.nodes[path] = "dir" /\ MountsAt(st.mounts, path) = {}
    THEN [st EXCEPT !.nodes[path] = "none"]
    ELSE st

\* fs::create_dir_all: creates the directory unless something is there.
create_dir_all(st, path) ==
    IF st.nodes[path] = "none" THEN [st EXCEPT !.nodes[path] = "dir"] ELSE st

\* mount::filesystem_unmount / bind_unmount / blockdevice_unmount.
unmount(st, path) ==
    [st EXCEPT !.mounts = {m \in @ : m.target # path}]

\* Device::detach.
detach(st, v) == [st EXCEPT !.attached = @ \ {v}]

\* A stage that never recognises the volume as staged already.
StagedAtNever(ms, dev, path) == FALSE

\* node_stage_volume's test for "already staged": the device is mounted at
\* <staging>/fs_mnt.
StagedAt(ms, dev, path) == MountsOfAt(ms, dev, path) # {}

\* The tail shared by both stage paths: prepare_device, then
\* mount::filesystem_mount of the device onto <staging>/fs_mnt; a failure
\* of either returns Internal with nothing mounted.
PrepareAndMount(st, v, fs_path, fstype, flags) ==
    {Ret(st, "Internal"),
     Ret([st EXCEPT !.mounts = @ \cup
              {[source |-> v, target |-> fs_path, fstype |-> fstype,
                options |-> flags]}],
         "OK")}

\* A Mount stage that mounts the found device without looking for
\* conflicting mounts.
StageMountSkipsConflicts(st0, v, staging, fs_type, flags) ==
    LET fs_path == make_fs_staging_path(staging)
        st == create_dir_all(st0, fs_path)
        fstype == IF fs_type = "" THEN Filesystems[1] ELSE fs_type
    IN
    IF fs_type # "" /\ fs_type \notin SupportedFs
    THEN {Ret(st, "InvalidArgument")}
    ELSE IF v \in st.attached
    THEN IF StagedAt(st.mounts, v, fs_path)
         THEN {Ret(st, "OK")}
         ELSE PrepareAndMount(st, v, fs_path, fstype, flags)
    ELSE IF MountsAt(st.mounts, fs_path) # {}
    THEN {Ret(st, "AlreadyExists")}
    ELSE LET att == [st EXCEPT !.attached = @ \cup {v}] IN
         {Ret(st, "Internal"), Ret(att, "Unavailable")}
         \cup PrepareAndMount(att, v, fs_path, fstype, flags)

\* node_stage_volume with a Mount capability, from the creation of the
\* fs_mnt directory on.
StageMount(st0, v, staging, fs_type, flags) ==
    LET fs_path == make_fs_staging_path(staging)
        st == create_dir_all(st0, fs_path)
        fstype == IF fs_type = "" THEN Filesystems[1] ELSE fs_type
    IN
    IF fs_type # "" /\ fs_type \notin SupportedFs
    THEN {Ret(st, "InvalidArgument")}
    ELSE IF v \in st.attached
    THEN IF StagedAt(st.mounts, v, fs_path)
         THEN {Ret(st, "OK")}
         ELSE IF MountsOf(st.mounts, v) # {}
         THEN {Ret(st, "AlreadyExists")}
         ELSE IF MountsAt(st.mounts, fs_path) # {}
         THEN {Ret(st, "AlreadyExists")}
         ELSE PrepareAndMount(st, v, fs_path, fstype, flags)
    ELSE IF MountsAt(st.mounts, fs_path) # {}
    THEN {Ret(st, "AlreadyExists")}
    ELSE LET att == [st EXCEPT !.attached = @ \cup {v}] IN
         {Ret(st, "Internal"), Ret(att, "Unavailable")}
         \cup PrepareAndMount(att, v, fs_path, fstype, flags)

\* node_stage_volume with a Block capability.
StageBlock(st, v) ==
    IF v \in st.attached
    THEN {Ret(st, "OK")}
    ELSE LET att == [st EXCEPT !.attached = @ \cup {v}] IN
         {Ret(st, "Internal"), Ret(att, "Unavailable"), Ret(att, "OK")}

\* node_stage_volume for a well-formed request.
node_stage_volume(st, v, staging, cap) ==
    IF cap.type = "block"
    THEN StageBlock(st, v)
    ELSE StageMount(st, v, staging, cap.fs_type, cap.mount_flags)

\* The detach that ends node_unstage_volume for a device found in udev.
DetachAndRemove(st, v, fs_path) ==
    {Ret(st, "Internal"), Ret(remove_dir(detach(st, v), fs_path), "OK")}

\* An unstage that never detaches: it unmounts whatever is mounted at
\* <staging>/fs_mnt and removes the directory.
node_unstage_volume_unmount_only(st, v, staging) ==
    LET fs_path == make_fs_staging_path(staging) IN
    IF st.nodes[fs_path] # "none"
    THEN IF MountsAt(st.mounts, fs_path) # {}
         THEN {Ret(st, "Internal"),
               Ret(remove_dir(unmount(st, fs_path), fs_path), "OK")}
         ELSE {Ret(remove_dir(st, fs_path), "OK")}
    ELSE {Ret(st, "OK")}

\* node_unstage_volume for a well-formed request.
node_unstage_volume(st, v, staging) ==
    LET fs_path == make_fs_staging_path(staging) IN
    IF v \in st.attached /\ UdevVisible(v)
    THEN IF st.nodes[fs_path] # "none"
         THEN IF MountsOfAt(st.mounts, v, fs_path) # {}
              THEN {Ret(st, "Internal"),
                    Ret(unmount(st, fs_path), "Internal"),
                    Ret(detach(unmount(st, fs_path), v), "OK")}
              ELSE IF MountsOf(st.mounts, v) # {}
              THEN {Ret(st, "AlreadyExists")}
              ELSE IF MountsAt(st.mounts, fs_path) # {}
              THEN {Ret(st, "AlreadyExists")}
              ELSE DetachAndRemove(st, v, fs_path)
         ELSE DetachAndRemove(st, v, fs_path)
    ELSE IF st.nodes[fs_path] # "none"
    THEN IF MountsAt(st.mounts, fs_path) # {}
         THEN {Ret(st, "Internal"),
               Ret(remove_dir(unmount(st, fs_path), fs_path), "OK")}
         ELSE {Ret(remove_dir(st, fs_path), "OK")}
    ELSE {Ret(st, "OK")}

NodeStageVolume ==
    /\ \E v \in Vols, staging \in 1 .. NumStaging, cap \in Capabilities :
           \E r \in node_stage_volume(csi, v, staging, cap) :
               /\ csi' = r.st
               /\ csiOp' = [op |-> "stage", res |-> r.res]
    /\ UNCHANGED otherThanCsi

NodeUnstageVolume ==
    /\ \E v \in Vols, staging \in 1 .. NumStaging :
           \E r \in node_unstage_volume(csi, v, staging) :
               /\ csi' = r.st
               /\ csiOp' = [op |-> "unstage", res |-> r.res]
    /\ UNCHANGED otherThanCsi

\* mount::bind_mount(<staging>/fs_mnt, target): the new mount shows the
\* staged mount's source, type and options.
bind_mount(st, staged, target) ==
    [st EXCEPT !.mounts = @ \cup {[staged EXCEPT !.target = target]}]

\* mount::bind_remount(target, options).
bind_remount(st, target, options) ==
    [st EXCEPT !.mounts = {IF m.target = target
                           THEN [m EXCEPT !.options = options]
                           ELSE m : m \in @}]

\* mount::blockdevice_mount(device, target, readonly).
blockdevice_mount(st, target, ro) ==
    [st EXCEPT !.mounts = @ \cup
        {[source |-> DevTmpfs, target |-> target, fstype |-> DevTmpfs,
          options |-> IF ro THEN {"ro"} ELSE {}]}]

\* A read-only remount that returns on failure without cleaning up.
RemountReadOnlyNoCleanup(bound, target, options) ==
    {[st |-> bind_remount(bound, target, options), res |-> "OK",
      error |-> "none"],
     [st |-> bound, res |-> "Internal", error |-> "remount"]}

\* The end of a read-only Mount publish, after the bind mount: remount the
\* target read-only; if that fails, unmount the target (a failure of the
\* unmount is only logged) and return Internal with the message of the
\* remount error. error names the failure the returned message reports.
RemountReadOnly(bound, target, options) ==
    {[st |-> bind_remount(bound, target, options), res |-> "OK",
      error |-> "none"],
     [st |-> unmount(bound, target), res |-> "Internal",
      error |-> "remount"],
     [st |-> bound, res |-> "Internal", error |-> "remount"]}

\* node_publish_volume with a Mount capability, once the staged mount has
\* been found not to conflict with the request: create the target
\* directory, bind-mount (which fails on a target that is not a
\* directory), remount read-only if asked and unmount if that fails.
PublishBind(st0, staged, target, flags, ro) ==
    LET st == create_dir_all(st0, target)
        bound == bind_mount(st, staged, target)
    IN
    IF st.nodes[target] # "dir"
    THEN {Ret(st, "Internal")}
    ELSE IF ro /\ ~readonly(staged.options)
    THEN {Ret(st, "Internal")}
         \cup {Ret(o.st, o.res) :
                   o \in RemountReadOnly(bound, target, flags \cup {"ro"})}
    ELSE {Ret(st, "Internal"), Ret(bound, "OK")}

\* A Mount publish that binds whatever is staged, without comparing the
\* staged mount with the request.
PublishMountAnyStaged(st, staging, target, fs_type, flags, ro) ==
    LET fs_path == make_fs_staging_path(staging) IN
    IF MountsAt(st.mounts, fs_path) = {}
    THEN {Ret(st, "InvalidArgument")}
    ELSE LET staged == CHOOSE m \in MountsAt(st.mounts, fs_path) : TRUE IN
         IF MountsAt(st.mounts, target) # {}
         THEN {Ret(st, "OK")}
         ELSE PublishBind(st, staged, target, flags, ro)

\* A Mount publish that takes any mount found at the target path for its
\* own.
PublishMountTakesTarget(st, staging, target, fs_type, flags, ro) ==
    LET fs_path == make_fs_staging_path(staging) IN
    IF MountsAt(st.mounts, fs_path) = {}
    THEN {Ret(st, "InvalidArgument")}
    ELSE LET staged == CHOOSE m \in MountsAt(st.mounts, fs_path) : TRUE IN
         IF fs_type # "" /\ fs_type # staged.fstype
         THEN {Ret(st, "InvalidArgument")}
         ELSE IF staged.fstype \notin SupportedFs
         THEN {Ret(st, "InvalidArgument")}
         ELSE IF readonly(staged.options) /\ ~ro
         THEN {Ret(st, "InvalidArgument")}
         ELSE IF MountsAt(st.mounts, target) # {}
         THEN {Ret(st, "OK")}
         ELSE PublishBind(st, staged, target, flags, ro)

\* node_publish_volume with a Mount capability.
PublishMount(st, staging, target, fs_type, flags, ro) ==
    LET fs_path == make_fs_staging_path(staging) IN
    IF MountsAt(st.mounts, fs_path) = {}
    THEN {Ret(st, "InvalidArgument")}
    ELSE LET staged == CHOOSE m \in MountsAt(st.mounts, fs_path) : TRUE IN
         IF fs_type # "" /\ fs_type # staged.fstype
         THEN {Ret(st, "InvalidArgument")}
         ELSE IF staged.fstype \notin SupportedFs
         THEN {Ret(st, "InvalidArgument")}
         ELSE IF readonly(staged.options) /\ ~ro
         THEN {Ret(st, "InvalidArgument")}
         ELSE IF MountsAt(st.mounts, target) # {}
         THEN LET mount == CHOOSE m \in MountsAt(st.mounts, target) : TRUE
              IN
              IF mount.source # staged.source
              THEN {Ret(st, "AlreadyExists")}
              ELSE IF ~subset(flags, mount.options)
                      \/ ro # readonly(mount.options)
              THEN {Ret(st, "AlreadyExists")}
              ELSE {Ret(st, "OK")}
         ELSE PublishBind(st, staged, target, flags, ro)

\* node_publish_volume with a Block capability.
PublishBlock(st, v, target, ro) ==
    IF v \notin st.attached
    THEN {Ret(st, "Internal")}
    ELSE IF st.nodes[target] # "none"
    THEN {Ret(st, "Internal")}
    ELSE LET made == [st EXCEPT !.nodes[target] = "blk"] IN
         {Ret(made, "Internal"), Ret(blockdevice_mount(made, target, ro), "OK")}

\* The fields of a NodePublishVolumeRequest that node_publish_volume
\* validates: access_ok is the result of check_access_mode, the strings
\* are empty when the field is missing, uri tells whether the publish
\* context holds a URI.
PublishRequests ==
    [access_ok : BOOLEAN, volume_id : {"", "vol"},
     target_path : {"", "/pods/target"}, staging_target_path : {"", "/stg"},
     uri : BOOLEAN]

\* The checks of the request that follow the creation of the parent of the
\* target path.
PublishFieldChecks(req) ==
    IF req.volume_id = "" THEN "InvalidArgument"
    ELSE IF req.target_path = "" THEN "InvalidArgument"
    ELSE IF req.staging_target_path = "" THEN "InvalidArgument"
    ELSE IF ~req.uri THEN "InvalidArgument"
    ELSE "valid"

\* The head of node_publish_volume up to the end of the validation of the
\* request: the outcomes as [res, parent], parent telling whether the
\* parent directory of the target path exists afterwards. An empty target
\* path has no parent (the unwrap panics); "valid" stands for a request
\* that goes on to be published.
publish_validation(req, parent) ==
    IF ~req.access_ok
    THEN {[res |-> "InvalidArgument", parent |-> parent]}
    ELSE IF req.target_path = ""
    THEN {[res |-> "panic", parent |-> parent]}
    ELSE {[res |-> "Internal", parent |-> parent],
          [res |-> PublishFieldChecks(req), parent |-> TRUE]}

\* node_publish_volume for a well-formed request with a writer access
\* mode.
node_publish_volume(st, v, staging, target, cap, ro) ==
    IF cap.type = "block"
    THEN PublishBlock(st, v, target, ro)
    ELSE PublishMount(st, staging, target, cap.fs_type, cap.mount_flags, ro)

\* An unpublish that unmounts and leaves the target path in place.
node_unpublish_volume_keeps_path(st, target) ==
    IF st.nodes[target] = "none" \/ MountsAt(st.mounts, target) = {}
    THEN {Ret(st, "OK")}
    ELSE {Ret(st, "Internal"), Ret(unmount(st, target), "OK")}

\* node_unpublish_volume for a well-formed request.
node_unpublish_volume(st, target) ==
    IF st.nodes[target] = "none"
    THEN {Ret(st, "OK")}
    ELSE IF st.nodes[target] = "dir"
    THEN IF MountsAt(st.mounts, target) = {}
         THEN {Ret(remove_dir(st, target), "OK")}
         ELSE {Ret(st, "Internal"),
               Ret(remove_dir(unmount(st, target), target), "OK")}
    ELSE IF MountsAt(st.mounts, target) # {}
    THEN {Ret(st, "Internal"),
          Ret([unmount(st, target) EXCEPT !.nodes[target] = "none"], "OK")}
    ELSE {Ret([st EXCEPT !.nodes[target] = "none"], "OK")}

NodePublishVolume ==
    /\ \E v \in Vols, staging \in 1 .. NumStaging, cap \in Capabilities,
          ro \in BOOLEAN :
           \E r \in node_publish_volume(csi, v, staging, TargetPath, cap, ro) :
               /\ csi' = r.st
               /\ csiOp' = [op |-> "publish", res |-> r.res]
    /\ UNCHANGED otherThanCsi

NodeUnpublishVolume ==
    /\ \E r \in node_unpublish_volume(csi, TargetPath) :
           /\ csi' = r.st
           /\ csiOp' = [op |-> "unpublish", res |-> r.res]
    /\ UNCHANGED otherThanCsi

NextCsi ==
    \/ NodeStageVolume
    \/ NodeUnstageVolume
    \/ NodePublishVolume
    \/ NodeUnpublishVolume

(***************************************************************************)
(* Concurrent NodeStageVolume calls with a Mount capability (node.rs): a   *)
(* call runs from one .await to the next in one step, and other calls run  *)
(* in between.                                                             *)
(*                                                                         *)
(* stageSt   : the mount table, as the set of [source, target] of its      *)
(*             entries, and the volumes whose device is attached.          *)
(* stageCall : per call, where it is suspended, its request and, once it   *)
(*             has returned, its status.                                   *)
(***************************************************************************)
StageCalls == 1 .. NumStageCalls

NoStageCall == [pc |-> "idle", v |-> "", staging |-> 0, res |-> "none"]

InitStage ==
    /\ stageSt = [mounts |-> {}, attached |-> {}]
    /\ stageCall = [p \in StageCalls |-> NoStageCall]

StageDone(call, res) == [call EXCEPT !.pc = "done", !.res = res]

\* The call is made: the request is validated, the fs_mnt directory is
\* created, and the call suspends in device.find().
StageBegin(p) ==
    /\ stageCall[p].pc = "idle"
    /\ \E v \in Vols, staging \in StageCalls :
          stageCall' = [stageCall EXCEPT ![p] =
                            [pc |-> "find", v |-> v, staging |-> staging,
                             res |-> "none"]]
    /\ UNCHANGED stageSt
    /\ UNCHANGED otherThanStage

\* The three find_mount checks of the branch that found the device: the
\* status they return, "none" when the call goes on.
stage_checks(ms, v, fs_path) ==
    IF MountsOfAt(ms, v, fs_path) # {} THEN "OK"
    ELSE IF MountsOf(ms, v) # {} THEN "AlreadyExists"
    ELSE IF MountsAt(ms, fs_path) # {} THEN "AlreadyExists"
    ELSE "none"

\* device.find() resolves. Device found: the mount table is checked and
\* the call suspends in prepare_device. Device not attached: the staging
\* path is checked and the call suspends in device.attach().
StageFound(p) ==
    /\ stageCall[p].pc = "find"
    /\ LET call == stageCall[p]
           fs_path == make_fs_staging_path(call.staging)
           res == stage_checks(stageSt.mounts, call.v, fs_path)
       IN  \/ stageCall' = [stageCall EXCEPT ![p] =
                                StageDone(call, "Internal")]
           \/ stageCall' = [stageCall EXCEPT ![p] =
                 IF call.v \in stageSt.attached
                 THEN IF res # "none" THEN StageDone(call, res)
                      ELSE [call EXCEPT !.pc = "prepare"]
                 ELSE IF MountsAt(stageSt.mounts, fs_path) # {}
                 THEN StageDone(call, "AlreadyExists")
                 ELSE [call EXCEPT !.pc = "attach"]]
    /\ UNCHANGED stageSt
    /\ UNCHANGED otherThanStage

\* device.attach() resolves; the call suspends in wait_for_device.
StageAttached(p) ==
    /\ stageCall[p].pc = "attach"
    /\ \/ /\ stageCall' = [stageCall EXCEPT ![p] =
                               StageDone(@, "Internal")]
          /\ UNCHANGED stageSt
       \/ /\ stageCall' = [stageCall EXCEPT ![p].pc = "wait"]
          /\ stageSt' = [stageSt EXCEPT
                             !.attached = @ \cup {stageCall[p].v}]
    /\ UNCHANGED otherThanStage

\* wait_for_device resolves; the call suspends in prepare_device.
StageWaited(p) ==
    /\ stageCall[p].pc = "wait"
    /\ \/ stageCall' = [stageCall EXCEPT ![p] = StageDone(@, "Unavailable")]
       \/ stageCall' = [stageCall EXCEPT ![p].pc = "prepare"]
    /\ UNCHANGED stageSt
    /\ UNCHANGED otherThanStage

\* prepare_device resolves and the device is mounted onto <staging>/fs_mnt
\* with mount::filesystem_mount.
StagePrepared(p) ==
    /\ stageCall[p].pc = "prepare"
    /\ LET call == stageCall[p]
           fs_path == make_fs_staging_path(call.staging)
       IN  \/ /\ stageCall' = [stageCall EXCEPT ![p] =
                                   StageDone(call, "Internal")]
              /\ UNCHANGED stageSt
           \/ /\ stageCall' = [stageCall EXCEPT ![p] =
                                   StageDone(call, "OK")]
              /\ stageSt' = [stageSt EXCEPT !.mounts = @ \cup
                                 {[source |-> call.v, target |-> fs_path]}]
    /\ UNCHANGED otherThanStage

NextStage ==
    \/ \E p \in StageCalls : StageBegin(p)
    \/ \E p \in StageCalls : StageFound(p)
    \/ \E p \in StageCalls : StageAttached(p)
    \/ \E p \in StageCalls : StageWaited(p)
    \/ \E p \in StageCalls : StagePrepared(p)

(***************************************************************************)
(* Specifications, one per subsystem.                                      *)
(***************************************************************************)
\* The state in which a subsystem rests while another one is explored.
IdleReset == InitReset

IdleChild ==
    /\ child = [c \in Children |->
                    [state |-> "Init", bdev |-> TRUE, descriptor |-> FALSE]]
    /\ claimOwner = 0
    /\ childOp = NoOp
    /\ panicked = FALSE

IdleErr == InitErr /\ errAction = "Fault"

IdleCsi == InitCsi

IdleLabel ==
    /\ disk = CHOOSE d \in Disks : TRUE
    /\ probeOp = NoProbe

IdleNexus == InitNexus

IdleShare == InitShare

IdleBdev == InitBdev

IdleLock == InitLock

IdleQpair == InitQpair

IdleStage == InitStage

ResetInit ==
    InitReset /\ IdleChild /\ IdleErr /\ IdleCsi /\ IdleLabel /\ IdleNexus
    /\ IdleShare
    /\ IdleBdev
    /\ IdleLock
    /\ IdleQpair
    /\ IdleStage

ChildInit ==
    IdleReset /\ InitChild /\ IdleErr /\ IdleCsi /\ IdleLabel /\ IdleNexus
    /\ IdleShare
    /\ IdleBdev
    /\ IdleLock
    /\ IdleQpair
    /\ IdleStage

ErrInit ==
    IdleReset /\ IdleChild /\ InitErr /\ IdleCsi /\ IdleLabel /\ IdleNexus
    /\ IdleShare
    /\ IdleBdev
    /\ IdleLock
    /\ IdleQpair
    /\ IdleStage

CsiInit ==
    IdleReset /\ IdleChild /\ IdleErr /\ InitCsi /\ IdleLabel /\ IdleNexus
    /\ IdleShare
    /\ IdleBdev
    /\ IdleLock
    /\ IdleQpair
    /\ IdleStage

SpecReset == ResetInit /\ [][NextReset]_vars

ResetPoolInit ==
    InitResetPool /\ IdleChild /\ IdleErr /\ IdleCsi /\ IdleLabel /\ IdleNexus
    /\ IdleShare
    /\ IdleBdev
    /\ IdleLock
    /\ IdleQpair
    /\ IdleStage

SpecResetPool == ResetPoolInit /\ [][NextReset]_vars

SpecChild == ChildInit /\ [][NextChild]_vars

SpecErr == ErrInit /\ [][NextErr]_vars

SpecCsi == CsiInit /\ [][NextCsi]_vars

\* The children of the label probe: at most the first one has been opened.
LabelInit ==
    /\ IdleReset /\ IdleErr /\ IdleCsi /\ InitLabel /\ IdleNexus
    /\ IdleShare
    /\ IdleBdev
    /\ IdleLock
    /\ IdleQpair
    /\ IdleStage
    /\ \E ch \in ProbedChildren :
          /\ child = [c \in Children |->
                          IF c = 1 THEN ch
                          ELSE [state |-> "Closed", bdev |-> TRUE,
                                descriptor |-> FALSE]]
          /\ claimOwner = IF ch.descriptor THEN 1 ELSE 0
    /\ childOp = NoOp
    /\ panicked = FALSE

SpecLabel == LabelInit /\ [][NextLabel]_vars

NexusInit ==
    IdleReset /\ IdleChild /\ IdleErr /\ IdleCsi /\ IdleLabel /\ InitNexus
    /\ IdleShare
    /\ IdleBdev
    /\ IdleLock
    /\ IdleQpair
    /\ IdleStage

SpecNexus == NexusInit /\ [][NextNexus]_vars

ShareInit ==
    IdleReset /\ IdleChild /\ IdleErr /\ IdleCsi /\ IdleLabel /\ IdleNexus
    /\ InitShare
    /\ IdleBdev
    /\ IdleLock
    /\ IdleQpair
    /\ IdleStage

SpecShare == ShareInit /\ [][NextShare]_vars

BdevInit ==
    IdleReset /\ IdleChild /\ IdleErr /\ IdleCsi /\ IdleLabel /\ IdleNexus
    /\ IdleShare /\ InitBdev
    /\ IdleLock
    /\ IdleQpair
    /\ IdleStage

SpecBdev == BdevInit /\ [][NextBdev]_vars

LockInit ==
    IdleReset /\ IdleChild /\ IdleErr /\ IdleCsi /\ IdleLabel /\ IdleNexus
    /\ IdleShare /\ IdleBdev /\ InitLock
    /\ IdleQpair
    /\ IdleStage

SpecLock == LockInit /\ [][NextLock]_vars

QpairInit ==
    IdleReset /\ IdleChild /\ IdleErr /\ IdleCsi /\ IdleLabel /\ IdleNexus
    /\ IdleShare /\ IdleBdev /\ IdleLock /\ InitQpair
    /\ IdleStage

SpecQpair == QpairInit /\ [][NextQpair]_vars

StageInit ==
    IdleReset /\ IdleChild /\ IdleErr /\ IdleCsi /\ IdleLabel /\ IdleNexus
    /\ IdleShare /\ IdleBdev /\ IdleLock /\ IdleQpair /\ InitStage

SpecStage == StageInit /\ [][NextStage]_vars

(***************************************************************************)
(* Claims about the controller reset and the I/O channels.                 *)
(***************************************************************************)
CallbackFires(r) == resets'[r].cbCount > resets[r].cbCount

\* C1: whenever the completion callback of a reset is invoked, the
\* controller is Running and every I/O channel holds a qpair or is shut
\* down.
C1_CompletionLeavesChannelsUsable ==
    [][\A r \in RIds :
          CallbackFires(r) =>
              /\ ctrl'.state = "Running"
              /\ \A c \in Cores :
                     chan'[c].exists =>
                         \/ chan'[c].is_shutdown
                         \/ chan'[c].qpair # NoQpair]_resetVars

\* C2: a reset is accepted only on a Running controller with no other
\* accepted reset still waiting for its completion callback; otherwise it
\* returns EBUSY and takes no context.
C2_ResetRejectedWhileBusy ==
    [][poolUsed' > poolUsed =>
          /\ ctrl.state = "Running"
          /\ \A r \in RIds : ~InFlight(r)]_resetVars

\* C3: every accepted reset invokes the user callback exactly once, with
\* success exactly when no teardown, hardware reset or reinit failed; a
\* rejected reset changes no context and invokes no callback. The callback
\* is reached on every path: an accepted reset that has not completed
\* always has a next traversal step to run, and every step moves it closer
\* to its completion.
C3_CallbackState ==
    \A r \in RIds :
        /\ resets[r].phase = "done" =>
               /\ resets[r].cbCount = 1
               /\ resets[r].cbOk <=> ~resets[r].failed
        /\ resets[r].phase # "done" => resets[r].cbCount = 0
        /\ r > poolUsed => resets[r].phase = "unused"

\* Rank of a reset context in its traversal: it grows with every step the
\* context takes, and is bounded by the rank of "done".
C3_Rank(ctx) ==
    CASE ctx.phase = "unused" -> 0
      [] ctx.phase = "destroy" -> ctx.pos
      [] ctx.phase = "create" -> NumCores + 1 + ctx.pos
      [] ctx.phase = "done" -> 2 * NumCores + 3

C3_StepEnabled(r) ==
    \/ ENABLED ResetDestroyChannels(r)
    \/ ENABLED ResetDestroyChannelsDone(r)
    \/ ENABLED ResetCreateChannels(r)
    \/ ENABLED ResetCreateChannelsDone(r)

C3_CallbackExactlyOnce ==
    /\ []C3_CallbackState
    /\ [](\A r \in RIds : InFlight(r) => C3_StepEnabled(r))
    /\ [][/\ (resetRes' # resetRes /\ resetRes' # "Ok") => resets' = resets
          /\ \A r \in RIds :
                resets'[r] # resets[r] =>
                    C3_Rank(resets'[r]) > C3_Rank(resets[r])]_resetVars

C3_Witness ==
    \E r1, r2 \in RIds :
        /\ resets[r1].phase = "done" /\ resets[r1].cbOk
        /\ resets[r2].phase = "done" /\ ~resets[r2].cbOk
        /\ resets[r2].status = -EIO
        /\ resetRes = "Ok"

\* C8: a shut-down channel holds no qpair, stays shut down for as long as
\* it exists, and a reinitialize that visits it returns -ENODEV and leaves
\* it untouched.
C8_ShutdownIsTerminal ==
    /\ [](\A c \in Cores : chan[c].is_shutdown => chan[c].qpair = NoQpair)
    /\ [][\A c \in Cores :
            (chan[c].is_shutdown /\ chan'[c].exists) =>
                /\ chan'[c] = chan[c]
                /\ \A r \in RIds :
                       (resets[r].phase = "create" /\ resets[r].pos = c
                            /\ resets'[r].pos = c + 1) =>
                           resets'[r].status = -ENODEV]_resetVars

C8_Witness ==
    \E r \in RIds, c \in Cores :
        /\ resets[r].status = -ENODEV
        /\ chan[c].exists /\ chan[c].is_shutdown
        /\ chan[c].qpair = NoQpair

\* C10: an I/O channel is installed only for a controller that is found by
\* its id, is Running and has no reset between acceptance and completion.
C10_NoChannelCreatedDuringReset ==
    [][\A c \in Cores :
          (~chan[c].exists /\ chan'[c].exists) =>
              /\ ctrl.registered
              /\ ctrl.state = "Running"
              /\ \A r \in RIds : ~InFlight(r)]_resetVars

\* C11: when the teardown traversal of a reset has visited every channel
\* without error and the hardware reset then fails, the user callback is
\* invoked with failure, the reset is over without a reinit traversal, and
\* the controller's state is Running; a reset that is over takes no
\* further step.
C11_HwResetFailureCompletesReset ==
    [][\A r \in RIds :
          /\ (resets[r].phase = "destroy" /\ resets[r].status = 0
                  /\ resets'[r].failed) =>
                 /\ resets'[r].phase = "done"
                 /\ resets'[r].cbCount = resets[r].cbCount + 1
                 /\ ~resets'[r].cbOk
                 /\ resets'[r].status # 0
                 /\ ctrl'.state = "Running"
          /\ resets[r].phase = "done" => resets'[r] = resets[r]]_resetVars

\* The first reset is over with the status of a failed hardware reset, its
\* callback has reported the failure, and the channels are as the teardown
\* left them: none holds a qpair.
C11_Witness ==
    /\ poolUsed = 1
    /\ resets[1].phase = "done" /\ resets[1].status = -EIO
    /\ resets[1].cbCount = 1 /\ ~resets[1].cbOk
    /\ ctrl.state = "Running"
    /\ \A c \in Cores :
           chan[c].exists /\ ~chan[c].is_shutdown /\ chan[c].qpair = NoQpair

\* C12 (checked under SpecResetPool): the pool never gives out more than
\* RESET_CTX_POOL_SIZE contexts; a reset requested on a Running controller
\* when every context is taken returns ENOMEM, and it takes no context,
\* leaves the controller, the channels and every reset context (its
\* traversal position and its callback count) as they were.
C12_ExhaustedPoolFailsFast ==
    /\ [](poolUsed <= RESET_CTX_POOL_SIZE)
    /\ [][(/\ ctrl.state = "Running"
           /\ poolUsed >= RESET_CTX_POOL_SIZE
           /\ resetRes' # resetRes) =>
              /\ resetRes' = "ENOMEM"
              /\ UNCHANGED <<ctrl, chan, resets, poolUsed>>]_resetVars
    /\ [](resetRes = "ENOMEM" =>
              /\ poolUsed = RESET_CTX_POOL_SIZE
              /\ ctrl.state = "Running")

\* The last context of the pool went to a reset of this controller, and a
\* later reset was refused with ENOMEM while the controller was Running.
C12_Witness ==
    /\ resetRes = "ENOMEM"
    /\ poolUsed = RESET_CTX_POOL_SIZE
    /\ ctrl.state = "Running"
    /\ resets[1].phase = "done"
    /\ resets[1].cbCount = 1

\* C29: an accepted reset moves the controller from Running to Resetting
\* before its teardown sweep starts, and the state stays Resetting until the
\* reset completes and sets it back to Running: while a reset is in flight
\* (its teardown or reinit sweep is running) the state is Resetting.
C29_ResettingWhileResetInFlight ==
    (\E r \in RIds : InFlight(r)) => ctrl.state = "Resetting"

\* The hardware reset of reset r is invoked in this step.
HwResetInvoked(r) ==
    /\ resets[r].phase = "destroy"
    /\ resets'[r].phase # "destroy"
    /\ resets[r].status = 0

\* The reinit sweep of reset r visits core c in this step.
ReinitVisits(r, c) ==
    /\ resets[r].phase = "create"
    /\ resets[r].pos = c
    /\ resets'[r].phase = "create"
    /\ resets'[r].pos = c + 1

\* C31: a reset is a fan-out/fan-in sweep: the hardware reset is invoked
\* only after every channel of the controller has executed its reset (it
\* holds no qpair), a channel is reinitialized only after the hardware
\* reset succeeded and after its own reset (destroy before reinit), and the
\* callback fires only when a sweep has ended.
C31_FanOutFanIn ==
    [][\A r \in RIds :
          /\ HwResetInvoked(r) =>
                /\ resets[r].pos > NumCores
                /\ \A c \in Cores : chan[c].exists => chan[c].qpair = NoQpair
          /\ \A c \in Cores :
                (ReinitVisits(r, c) /\ chan[c].exists) =>
                    chan[c].qpair = NoQpair
          /\ CallbackFires(r) =>
                \/ resets[r].phase = "destroy" /\ resets[r].pos > NumCores
                \/ /\ resets[r].phase = "create"
                   /\ resets[r].pos > NumCores \/ resets[r].status # 0
      ]_resetVars

\* C34: a reset context taken from the pool by an accepted reset is back in
\* the pool once the callback of that reset has been invoked: the contexts
\* in use are never more than the resets in flight (so that a reset with no
\* other reset in flight does not find the pool empty).
C34_ContextsReturnedToPool ==
    poolUsed <= Cardinality({r \in RIds : InFlight(r)})

\* C39: when a reset runs in parallel with channel shutdown, a channel
\* that is shut down is left without a qpair and does not keep the other
\* channels from being reinitialized: when the callback of a reset fires
\* after a reinit sweep in which no reinitialization of a channel that is
\* not shut down failed (the only reset made), every channel that is not
\* shut down holds a connected qpair.
C39_ShutdownDoesNotStopReinit ==
    [][\A r \in RIds :
          (/\ CallbackFires(r)
           /\ resets[r].phase = "create"
           /\ resets[r].status \in {0, -ENODEV}
           /\ \A r2 \in RIds \ {r} : resets[r2] = NoResetCtx) =>
              \A c \in Cores :
                  /\ (chan[c].exists /\ chan[c].is_shutdown) =>
                         chan[c].qpair = NoQpair
                  /\ (chan[c].exists /\ ~chan[c].is_shutdown) =>
                         chan[c].qpair = SomeQpair
      ]_resetVars

(***************************************************************************)
(* Claims about the nexus child.                                           *)
(***************************************************************************)
\* C4 (as stated): the descriptor of a child is present if and only if its
\* state is Open or Faulted.
C4_DescriptorIffOpenOrFaulted ==
    \A c \in Children :
        child[c].descriptor <=> child[c].state \in {"Open", "Faulted"}

\* C4 (amended): in every state reached by open and close calls the
\* descriptor of a child is present if and only if its state is Open; a
\* child that a failed open left Faulted holds no descriptor.
C4_DescriptorIffOpen ==
    \A c \in Children : child[c].descriptor <=> child[c].state = "Open"

C4_Witness ==
    \E c1, c2 \in Children :
        /\ child[c1].state = "Open" /\ child[c1].descriptor
        /\ child[c2].state = "Faulted" /\ ~child[c2].descriptor
        /\ childOp = [op |-> "open", c |-> c2, res |-> "ClaimChild"]

\* C5: after close has been called on a child, in whatever state, the call
\* has completed and the child holds no descriptor and is Closed.
C5_CloseLeavesClosed ==
    childOp.op = "close" =>
        /\ ~panicked
        /\ ~child[childOp.c].descriptor
        /\ child[childOp.c].state = "Closed"

\* C13: whenever open(parent_size) returns Ok, the backend is at least
\* parent_size bytes, the child is Open, holds a descriptor and holds the
\* module claim on its bdev.
C13_OpenOkPostcondition ==
    /\ \A c \in Children, parent_size \in ParentSizes, descOk \in BOOLEAN :
           LET o == open(child[c], c, parent_size, descOk, claimOwner) IN
           o.res = "Ok" =>
               /\ BdevSize >= parent_size
               /\ o.child.state = "Open"
               /\ o.child.descriptor
               /\ o.owner = c
    /\ (childOp.op = "open" /\ childOp.res = "Ok") =>
           /\ child[childOp.c].state = "Open"
           /\ child[childOp.c].descriptor
           /\ claimOwner = childOp.c

\* A child has just been opened again, after a close, with Ok.
C13_Witness ==
    \E c \in Children :
        /\ childOp = [op |-> "open", c |-> c, res |-> "Ok"]
        /\ child[c] = [state |-> "Open", bdev |-> TRUE, descriptor |-> TRUE]
        /\ claimOwner = c
        /\ \A d \in Children \ {c} : child[d].state = "Closed"

\* C14: open on a child that is Open, Faulted or ConfigInvalid returns
\* ChildNotClosed and changes neither the child nor the module claim; on a
\* child that is Closed or Init it never returns ChildNotClosed.
C14_OpenOnlyFromClosedOrInit ==
    \A c \in Children, parent_size \in ParentSizes, descOk \in BOOLEAN :
        LET o == open(child[c], c, parent_size, descOk, claimOwner) IN
        /\ child[c].state \in {"Open", "Faulted", "ConfigInvalid"} =>
               o = [child |-> child[c], res |-> "ChildNotClosed",
                    owner |-> claimOwner]
        /\ child[c].state \in {"Closed", "Init"} => o.res # "ChildNotClosed"

\* open has just returned ChildNotClosed on a Faulted child while another
\* child is ConfigInvalid.
C14_Witness ==
    \E c, d \in Children :
        /\ childOp = [op |-> "open", c |-> c, res |-> "ChildNotClosed"]
        /\ child[c].state = "Faulted"
        /\ child[d].state = "ConfigInvalid"

\* C15: an open that fails has committed the state that goes with the
\* failure: ChildTooSmall is returned exactly for a parent_size above the
\* child's size, with state ConfigInvalid, no descriptor and the claim
\* untouched; OpenChild (Descriptor::open failed) and ClaimChild (the bdev
\* is claimed already) come with state Faulted.
C15_FailedOpenCommitsState ==
    \A c \in Children, parent_size \in ParentSizes, descOk \in BOOLEAN :
        LET o == open(child[c], c, parent_size, descOk, claimOwner) IN
        /\ o.res = "ChildTooSmall" =>
               /\ parent_size > BdevSize
               /\ o.child.state = "ConfigInvalid"
               /\ ~o.child.descriptor
               /\ o.owner = claimOwner
        /\ (child[c].state \in {"Closed", "Init"} /\ child[c].bdev
                /\ parent_size > BdevSize) => o.res = "ChildTooSmall"
        /\ o.res = "OpenChild" => ~descOk /\ o.child.state = "Faulted"
        /\ o.res = "ClaimChild" =>
               claimOwner # 0 /\ o.child.state = "Faulted"

\* open has just returned ChildTooSmall and left the child ConfigInvalid,
\* after another open had failed with OpenChild and left its child Faulted.
C15_Witness ==
    \E c, d \in Children :
        /\ childOp = [op |-> "open", c |-> c, res |-> "ChildTooSmall"]
        /\ child[c].state = "ConfigInvalid" /\ ~child[c].descriptor
        /\ child[d].state = "Faulted" /\ claimOwner = 0

\* C16: a child whose state is ConfigInvalid keeps that state whatever is
\* called on it.
C16_ConfigInvalidIsTerminal ==
    [][\A c \in Children :
          child[c].state = "ConfigInvalid" =>
              child'[c].state = "ConfigInvalid"]_childVars

\* C17 (as stated): read_at and write_at issue I/O only while can_rw()
\* holds, return InvalidDescriptor on a child without descriptor, and never
\* return InvalidDescriptor while can_rw() holds.
C17_IoWhileCanRw ==
    \A c \in Children, ioOk \in BOOLEAN :
        \A r \in {read_at(child[c], ioOk), write_at(child[c], ioOk)} :
            /\ r # "InvalidDescriptor" => can_rw(child[c])
            /\ ~child[c].descriptor => r = "InvalidDescriptor"
            /\ can_rw(child[c]) => r # "InvalidDescriptor"

\* C17 (amended): read_at and write_at issue I/O exactly when the child
\* holds a descriptor and return InvalidDescriptor exactly when it holds
\* none; in the states reached by open and close that is I/O in state Open
\* only, and InvalidDescriptor in state Closed, Init, ConfigInvalid and in
\* the Faulted state a failed open leaves, where can_rw() holds.
C17_IoIffDescriptor ==
    /\ \A c \in Children, ioOk \in BOOLEAN :
           \A r \in {read_at(child[c], ioOk), write_at(child[c], ioOk)} :
               /\ r = "InvalidDescriptor" <=> ~child[c].descriptor
               /\ r # "InvalidDescriptor" =>
                      child[c].state = "Open" /\ can_rw(child[c])
               /\ child[c].state # "Open" => r = "InvalidDescriptor"
    /\ childOp.op \in {"read_at", "write_at"} =>
           (childOp.res = "InvalidDescriptor"
                <=> ~child[childOp.c].descriptor)

\* read_at has just returned InvalidDescriptor on a Faulted child, for
\* which can_rw() holds.
C17_Witness ==
    \E c \in Children :
        /\ childOp = [op |-> "read_at", c |-> c,
                      res |-> "InvalidDescriptor"]
        /\ child[c].state = "Faulted"
        /\ can_rw(child[c])

\* C35: the module claim on the backend bdev is exclusive and owned: it is
\* released only by close() of the child that acquired it; the close of a
\* child that does not hold it leaves it with its holder.
C35_ClaimReleasedByOwnerOnly ==
    [][(claimOwner # 0 /\ claimOwner' # claimOwner) =>
           /\ claimOwner' = 0
           /\ childOp'.op = "close"
           /\ childOp'.c = claimOwner
      ]_childVars

(***************************************************************************)
(* Claims about the label probe.                                           *)
(***************************************************************************)
\* C18: on a device whose primary header (LBA 1) is invalid and whose
\* backup header at LBA num_blocks - 1 is valid, probe_label returns what it
\* returns on the same device with both headers valid; the backup is read
\* only when the primary is invalid (a failing backup read or an unaligned
\* read changes nothing when the primary is valid); LabelInvalid is
\* returned only when both headers are invalid.
C18_BackupHeaderGivesSameLabel ==
    \A c \in Children, env \in ProbeEnvs :
        LET r == probe_label(child[c], disk, env)
            both == probe_label(child[c],
                                [disk EXCEPT !.primaryOk = TRUE,
                                             !.backupOk = TRUE], env)
            quiet == probe_label(child[c], disk,
                                 [fail |-> "none", unaligned |-> "junk"])
        IN  /\ (~disk.primaryOk /\ disk.backupOk /\ env.fail = "none") =>
                   r = both
            /\ (disk.primaryOk /\ env.fail \in {"none", "BackupRead"}) =>
                   r = quiet
            /\ r.res = "LabelInvalid" =>
                   ~disk.primaryOk /\ ~disk.backupOk

\* C19: with a valid header of num_entries >= 1 entries and no failing
\* allocation or read, probe_label does not panic; it returns Ok exactly
\* when the checksum over all num_entries entries equals table_crc, with
\* the first two entries in table order (all of them when there are fewer
\* than two), and PartitionTableChecksum otherwise.
C19_FirstTwoEntriesOfCheckedTable ==
    \A c \in Children, env \in ProbeEnvs :
        LET r == probe_label(child[c], disk, env)
            all == SubSeq(disk.table, 1, disk.hdr.num_entries)
            few == IF Len(all) < 2 THEN Len(all) ELSE 2
        IN  (/\ can_rw(child[c]) /\ child[c].descriptor
             /\ disk.primaryOk /\ disk.hdr.num_entries >= 1
             /\ env.fail = "none") =>
                /\ r.res # "panic"
                /\ checksum(all) = disk.hdr.table_crc =>
                       /\ r.res = "Ok"
                       /\ r.label.primary = disk.hdr
                       /\ r.label.partitions = SubSeq(all, 1, few)
                /\ checksum(all) # disk.hdr.table_crc =>
                       r.res = "PartitionTableChecksum"

(***************************************************************************)
(* Claims about the error store.                                           *)
(***************************************************************************)
\* The number of errors submitted at or before time t that lie within the
\* retention window at t, counted over the store and the new record.
C9_CountSince(store, t) ==
    Cardinality({i \in 1 .. Len(store) : t - store[i] <= retention_ns}) + 1

\* C9: the child is faulted out only at an insertion that brings the number
\* of its errors within the retention window strictly above max_errors,
\* with action Fault; up to max_errors errors within the window the nexus
\* stays Online, and it is Degraded exactly when the child is faulted.
C9_FaultOnlyOverThreshold ==
    /\ []((nexusStatus = "Degraded") <=> (errChild = "Faulted"))
    /\ [][/\ (errChild = "Open" /\ errChild' = "Faulted") =>
                 /\ C9_CountSince(errStore, now) > max_errors
                 /\ errAction = "Fault"
          /\ (errTotal' = errTotal + 1 /\ errAction = "Fault"
                  /\ C9_CountSince(errStore, now) > max_errors) =>
                 nexusStatus' = "Degraded"
          /\ (errTotal' = errTotal + 1
                  /\ C9_CountSince(errStore, now) <= max_errors) =>
                 nexusStatus' = "Online"]_vars

\* Five errors within the window fault the child, after earlier errors had
\* aged out of the window without faulting it.
C9_Witness ==
    /\ nexusStatus = "Degraded"
    /\ errChild = "Faulted"
    /\ Len(errStore) = max_errors + 1
    /\ errTotal > max_errors + 1

C27_OneShareProtocol ==
    \A n \in Nexuses :
        LET nx == nxShare[n]
        IN  /\ shared(nx) \in ShareProtocols \cup {"Off"}
            /\ shared(nx) = "Off" <=> nx.uri = NoUri
            /\ nx.exists =>
                  \A proto \in ShareProtocols :
                      LET r == share(nx, n, proto)
                          off == unshare(nx)
                      IN  /\ shared(nx) = proto =>
                                 r.ok /\ r.uri = nx.uri /\ r.nx = nx
                          /\ shared(nx) \in ShareProtocols \ {proto} =>
                                 ~r.ok /\ r.nx = nx
                          /\ shared(off) = "Off"
                          /\ share(off, n, proto).ok
                          /\ shared(share(off, n, proto).nx) = proto

\* A share over nvmf has just been refused for a nexus that is shared over
\* iscsi.
C27_Witness ==
    /\ shareOp.op = "share" /\ shareOp.proto = "Nvmf" /\ ~shareOp.ok
    /\ shared(nxShare[shareOp.nexus]) = "Iscsi"
    /\ nxShare[shareOp.nexus].uri = share_uri(shareOp.nexus, "Iscsi")

(***************************************************************************)
(* Claims about the backend devices (SpecBdev).                            *)
(***************************************************************************)
\* C28: create is idempotent: for a URI whose bdev name is registered
\* already it succeeds and returns the name of the bdev in place, and no
\* second bdev is created.
C28_CreateIsIdempotent ==
    \A u \in Urings :
        lookup_by_name(bdevReg, u.name) =>
            \A r \in UringCreate(bdevReg, u) :
                r.res = "Ok" /\ r.ret = u.name /\ r.reg = bdevReg

(***************************************************************************)
(* Claims about the mutex of the controller (SpecLock).                    *)
(***************************************************************************)
\* C32: the mutex of the controller is never held across a step that may
\* suspend or re-enter: the channel creation holds it at none of its qpair
\* calls and the reset flow does not hold it while the user callback runs,
\* so a callback that needs the controller is never blocked by its own
\* flow; the holder is always inside one of the two short locked sections.
C32_MutexNotHeldAcrossSuspension ==
    /\ \A p \in LockProcs : lockPc[p] \in SuspendingPcs => mutex # p
    /\ mutex # NoHolder => lockPc[mutex] \in {"locked", "cb_locked"}
    /\ lockPc[ResetFlow] = "cb" =>
          \/ mutex = NoHolder
          \/ lockPc[mutex] = "locked" /\ mutex \in Cores

\* The user callback of a reset holds the controller while the creation of
\* a channel is connecting its qpair.
C32_Witness ==
    /\ lockPc[ResetFlow] = "cb_locked"
    /\ mutex = ResetFlow
    /\ \E c \in Cores : lockPc[c] = "connect"

(***************************************************************************)
(* Claims about the resources of an I/O channel (SpecQpair).               *)
(***************************************************************************)
\* The place of the first call f on qpair q in a sequence of calls, 0 when
\* there is none.
Pos(calls, f, q) ==
    IF \E i \in 1 .. Len(calls) : calls[i] = Call(f, q)
    THEN CHOOSE i \in 1 .. Len(calls) :
             /\ calls[i] = Call(f, q)
             /\ \A j \in 1 .. (i - 1) : calls[j] # Call(f, q)
    ELSE 0

\* The qpair is added to the poll group before it is connected, and is
\* removed from it again when the connect fails.
AddedBeforeConnected(calls, q, outcome) ==
    /\ Pos(calls, "connect", q) > 0 =>
          /\ Pos(calls, "pg_add", q) > 0
          /\ Pos(calls, "pg_add", q) < Pos(calls, "connect", q)
    /\ (outcome = "connect_fail" /\ calls # <<>>) =>
          /\ Pos(calls, "connect", q) > 0
          /\ Pos(calls, "connect", q) < Pos(calls, "pg_remove", q)
    /\ outcome = "ok" /\ calls # <<>> => Pos(calls, "connect", q) > 0

\* C33: in channel creation and in channel reinit the qpair is added to the
\* poll group before it is connected (and removed from it again if the
\* connect fails); channel destruction stops the poller first, then removes
\* the qpair from the poll group, then releases the qpair (abort requests,
\* disconnect, free, in that order), and destroys the poll group last.
C33_ChannelCallOrder ==
    /\ \A outcome \in CreateOutcomes :
          AddedBeforeConnected(create_calls(qch.next, outcome), qch.next,
                               outcome)
    /\ \A outcome \in CreateOutcomes \ {"pg_fail"} :
          AddedBeforeConnected(
              reinitialize_calls(qch, qch.next, outcome), qch.next, outcome)
    /\ LET calls == destroy_calls(qch)
           q == qch.qpair
       IN  /\ calls[1] = Call("poller_stop", NoQp)
           /\ calls[Len(calls)] = Call("pg_destroy", NoQp)
           /\ q # NoQp =>
                 calls = <<Call("poller_stop", NoQp), Call("pg_remove", q),
                           Call("abort_reqs", q), Call("disconnect", q),
                           Call("free", q), Call("pg_destroy", NoQp)>>
           /\ q = NoQp => Len(calls) = 2

\* A channel that held a connected qpair has just been destroyed.
C33_Witness ==
    /\ ~qch.exists
    /\ Len(qcalls) = 6
    /\ qcalls[1] = Call("poller_stop", NoQp)
    /\ qcalls[5].f = "free"
    /\ qcalls[5].q \in qch.freed
    /\ qch.pg = {}

\* C36: on every path that releases the qpair of a channel the qpair is
\* removed from the poll group of the channel before it is disconnected and
\* freed, so after any step the poll group holds no freed qpair and at most
\* the qpair the channel holds.
C36_RemovedFromPollGroupBeforeFreed ==
    [][/\ \A i \in 1 .. Len(qcalls') :
             (qcalls'[i].f \in {"disconnect", "free"}
                  /\ qcalls'[i].q \in qch.pg) =>
                 \E j \in 1 .. (i - 1) :
                     qcalls'[j] = Call("pg_remove", qcalls'[i].q)
       /\ qch'.pg \cap qch'.freed = {}
       /\ qch'.pg \subseteq {qch'.qpair}
      ]_qpairVars

(***************************************************************************)
(* Claims about the CSI node service (SpecCsi).  A repeated call is the    *)
(* RPC applied, with the same request, to the state its first application  *)
(* returned in; every state a call can be made in is a reachable csi.      *)
(***************************************************************************)
SameMountsAndAttachment(a, b) ==
    a.mounts = b.mounts /\ a.attached = b.attached

\* C6: repeating a NodeStageVolume call that returned OK, with identical
\* inputs, returns OK and changes neither the mount table nor the device
\* attachment, whatever the external operations would do; and so does
\* repeating a NodeUnstageVolume call that returned OK.
C6_StageUnstageIdempotent ==
    /\ \A v \in Vols, staging \in 1 .. NumStaging, cap \in Capabilities :
        \A r1 \in node_stage_volume(csi, v, staging, cap) :
            r1.res = "OK" =>
                \A r2 \in node_stage_volume(r1.st, v, staging, cap) :
                    r2.res = "OK" /\ SameMountsAndAttachment(r2.st, r1.st)
    /\ \A v \in Vols, staging \in 1 .. NumStaging :
        \A r1 \in node_unstage_volume(csi, v, staging) :
            r1.res = "OK" =>
                \A r2 \in node_unstage_volume(r1.st, v, staging) :
                    r2.res = "OK" /\ SameMountsAndAttachment(r2.st, r1.st)

\* A NodeStageVolume call has just returned OK, leaving a volume attached
\* and mounted at <staging>/fs_mnt, and the same Mount request made again
\* can only return OK in the same state.
C6_Witness ==
    /\ csiOp = [op |-> "stage", res |-> "OK"]
    /\ \E v \in Vols, staging \in 1 .. NumStaging, cap \in Capabilities :
        /\ cap.type = "mount"
        /\ v \in csi.attached
        /\ [source |-> v, target |-> make_fs_staging_path(staging),
            fstype |-> Filesystems[2], options |-> cap.mount_flags]
               \in csi.mounts
        /\ cap.fs_type = Filesystems[2]
        /\ node_stage_volume(csi, v, staging, cap) = {Ret(csi, "OK")}

\* No device is mounted at two staging paths and no staging path carries
\* two mounts.
StagingMountsUnique(st) ==
    /\ \A v \in Vols :
           Cardinality({m.target : m \in {n \in MountsOf(st.mounts, v) :
                                              n.target \in StagingPaths}})
               <= 1
    /\ \A p \in StagingPaths : Cardinality(MountsAt(st.mounts, p)) <= 1

\* Every mounted device is attached, as it is as long as nothing but stage
\* calls have run.
MountedIsAttached(st) ==
    \A m \in st.mounts : m.source \in Vols => m.source \in st.attached

C7_PublishIdempotent ==
    \A v \in Vols, staging \in 1 .. NumStaging, cap \in Capabilities,
       ro \in BOOLEAN :
        \A r1 \in node_publish_volume(csi, v, staging, TargetPath, cap, ro) :
            r1.res = "OK" =>
                \A r2 \in node_publish_volume(r1.st, v, staging, TargetPath,
                                              cap, ro) :
                    r2.res = "OK" /\ r2.st = r1.st

\* C21: a Mount publish returns InvalidArgument and changes nothing when no
\* mount exists at <staging>/fs_mnt, when the requested fstype is neither
\* empty nor the staged fstype, or when the staged mount is read-only and
\* the publish asks for read-write; so whenever it adds a mount at the
\* target path none of the three is the case.
C21_PublishNeedsMatchingStage ==
    \A v \in Vols, staging \in 1 .. NumStaging, cap \in Capabilities,
       ro \in BOOLEAN :
        LET staged == MountsAt(csi.mounts, make_fs_staging_path(staging))
            violating ==
                \/ staged = {}
                \/ \E m \in staged :
                       \/ cap.fs_type # "" /\ cap.fs_type # m.fstype
                       \/ readonly(m.options) /\ ~ro
        IN  cap.type = "mount" =>
                \A r \in node_publish_volume(csi, v, staging, TargetPath,
                                             cap, ro) :
                    /\ violating => r.res = "InvalidArgument" /\ r.st = csi
                    /\ ~(MountsAt(r.st.mounts, TargetPath)
                             \subseteq MountsAt(csi.mounts, TargetPath))
                           => ~violating

\* A publish has just returned InvalidArgument although a volume is staged
\* with the second filesystem type: it is staged read-only; nothing is
\* mounted at the target path.
C21_Witness ==
    /\ csiOp = [op |-> "publish", res |-> "InvalidArgument"]
    /\ \A p \in StagingPaths :
           \E m \in MountsAt(csi.mounts, p) :
               readonly(m.options) /\ m.fstype = Filesystems[2]
    /\ MountsAt(csi.mounts, TargetPath) = {}

\* The request does not fit what is staged: nothing is mounted at
\* <staging>/fs_mnt, or the fstype differs, or the staged mount is
\* read-only and the publish asks for read-write.
StageMismatch(st, staging, cap, ro) ==
    LET staged == MountsAt(st.mounts, make_fs_staging_path(staging)) IN
    \/ staged = {}
    \/ \E m \in staged :
           \/ cap.fs_type # "" /\ cap.fs_type # m.fstype
           \/ readonly(m.options) /\ ~ro

\* The target path is a mount point whose mount conflicts with the
\* request: another source than the staged one, options that do not
\* include the requested flags, or another read-only state.
TargetConflict(st, staging, cap, ro) ==
    \E s \in MountsAt(st.mounts, make_fs_staging_path(staging)),
       t \in MountsAt(st.mounts, TargetPath) :
        \/ t.source # s.source
        \/ ~subset(cap.mount_flags, t.options)
        \/ ro # readonly(t.options)

\* C22 (as stated): a Mount publish on a target path that is a mount point
\* already returns AlreadyExists and changes nothing whenever the existing
\* mount conflicts with the request.
C22_TargetConflictAlreadyExists ==
    \A v \in Vols, staging \in 1 .. NumStaging, cap \in Capabilities,
       ro \in BOOLEAN :
        (cap.type = "mount" /\ TargetConflict(csi, staging, cap, ro)) =>
            \A r \in node_publish_volume(csi, v, staging, TargetPath,
                                         cap, ro) :
                r.res = "AlreadyExists" /\ r.st = csi

\* C22 (amended): the same for a request that fits what is staged; a
\* request that does not returns InvalidArgument first, whatever is mounted
\* at the target path. Either way nothing changes.
C22_TargetConflictAfterStageChecks ==
    \A v \in Vols, staging \in 1 .. NumStaging, cap \in Capabilities,
       ro \in BOOLEAN :
        (cap.type = "mount" /\ TargetConflict(csi, staging, cap, ro)) =>
            \A r \in node_publish_volume(csi, v, staging, TargetPath,
                                         cap, ro) :
                /\ r.st = csi
                /\ r.res = IF StageMismatch(csi, staging, cap, ro)
                           THEN "InvalidArgument" ELSE "AlreadyExists"

\* A publish has just returned AlreadyExists: a volume is staged, and the
\* target path carries the mount of a block device node, not of the staged
\* volume.
C22_Witness ==
    /\ csiOp = [op |-> "publish", res |-> "AlreadyExists"]
    /\ \A p \in StagingPaths : MountsAt(csi.mounts, p) # {}
    /\ \E t \in MountsAt(csi.mounts, TargetPath) : t.source = DevTmpfs
    /\ csi.nodes[TargetPath] = "blk"

C24_UnstageUnmountsAndDetaches ==
    \A v \in Vols, staging \in 1 .. NumStaging :
        LET fs_path == make_fs_staging_path(staging)
            found == v \in csi.attached /\ UdevVisible(v)
        IN  \A r \in node_unstage_volume(csi, v, staging) :
                r.res = "OK" =>
                    /\ MountsAt(r.st.mounts, fs_path) = {}
                    /\ r.st.mounts
                           = csi.mounts \ MountsAt(csi.mounts, fs_path)
                    /\ found => r.st.attached = csi.attached \ {v}
                    /\ (found /\ csi.nodes[fs_path] = "none") =>
                           r.st = detach(csi, v)
                    /\ ~found => r.st.attached = csi.attached

\* An unstage has just returned OK with nothing left mounted while the nbd
\* volume, which Device::lookup does not find, is still attached and the
\* other volume is detached.
C24_Witness ==
    /\ csiOp = [op |-> "unstage", res |-> "OK"]
    /\ csi.mounts = {}
    /\ csi.attached = {v \in Vols : ~UdevVisible(v)}
    /\ \A p \in StagingPaths : csi.nodes[p] = "none"

\* C25: when a read-only Mount publish of a volume staged read-write has
\* bind-mounted the staging path onto the target and the read-only remount
\* fails, the call returns Internal with the remount error; the target has
\* been unmounted, so no mount remains there, unless that unmount failed
\* too, which leaves the bind mount and is not what the call reports.
C25_FailedRemountUnmountsTarget ==
    \A staging \in 1 .. NumStaging, flags \in MountFlagInputs :
        \A staged \in MountsAt(csi.mounts, make_fs_staging_path(staging)) :
            LET st == create_dir_all(csi, TargetPath)
                bound == bind_mount(st, staged, TargetPath)
                outs == RemountReadOnly(bound, TargetPath,
                                        flags \cup {"ro"})
                failed == {o \in outs : o.res # "OK"}
            IN  (/\ ~readonly(staged.options)
                 /\ MountsAt(csi.mounts, TargetPath) = {}
                 /\ st.nodes[TargetPath] = "dir") =>
                    /\ \A o \in failed :
                           /\ o.res = "Internal" /\ o.error = "remount"
                           /\ \/ MountsAt(o.st.mounts, TargetPath) = {}
                              \/ o.st = bound
                           /\ Ret(o.st, o.res) \in
                                  PublishBind(csi, staged, TargetPath, flags,
                                              TRUE)
                    /\ \E o \in failed :
                           /\ MountsAt(o.st.mounts, TargetPath) = {}
                           /\ o.st.mounts = csi.mounts
                    /\ \A r \in PublishBind(csi, staged, TargetPath, flags,
                                             TRUE) :
                           r.res = "Internal" =>
                               \/ MountsAt(r.st.mounts, TargetPath) = {}
                               \/ r.st = bound

\* A publish has just returned Internal; a volume is staged read-write, the
\* target directory exists and carries no mount.
C25_Witness ==
    /\ csiOp = [op |-> "publish", res |-> "Internal"]
    /\ \A p \in StagingPaths :
           \E m \in MountsAt(csi.mounts, p) : ~readonly(m.options)
    /\ csi.nodes[TargetPath] = "dir"
    /\ MountsAt(csi.mounts, TargetPath) = {}

\* C37: under concurrent NodeStageVolume calls that interleave at their
\* suspension points the staging invariant holds: no device is mounted at
\* two staging paths and no staging path carries two mounts.
C37_ConcurrentStagesKeepMountsUnique ==
    \A m1, m2 \in stageSt.mounts :
        (m1.source = m2.source \/ m1.target = m2.target) => m1 = m2

\* C38: NodeUnstageVolume never detaches a device that is still mounted at
\* any path: whenever the call has detached the volume's device, no mount
\* of the device remains.
C38_NoDetachWhileMounted ==
    \A v \in Vols, staging \in 1 .. NumStaging :
        \A r \in node_unstage_volume(csi, v, staging) :
            (v \in csi.attached /\ v \notin r.st.attached) =>
                MountsOf(r.st.mounts, v) = {}

\* C40: a NodePublishVolume request that is rejected with InvalidArgument
\* because the volume id, the target path, the staging path or the URI is
\* missing, or the access mode is inconsistent, causes no filesystem
\* change: whether or not the parent of the target path exists (it does
\* when the target path does), no directory has been created when the
\* request is answered InvalidArgument, and such a request is not taken
\* for a valid one.
C40_RejectedPublishChangesNothing ==
    \A req \in PublishRequests, parent \in BOOLEAN :
        \A o \in publish_validation(req, parent) :
            /\ (/\ csi.nodes[TargetPath] # "none" => parent
                /\ o.res = "InvalidArgument") => o.parent = parent
            /\ o.res \in {"valid", "panic"} =>
                   PublishFieldChecks(req) = "valid" /\ req.access_ok

====
